---- MODULE Spec2Model ----
(***************************************************************************)
(* RogueSweeper board engine (src/game/engine.py, class GameEngine).       *)
(*                                                                         *)
(* The engine is a library of static functions over a board_state         *)
(* dictionary.  The web layer (src/game/views.py) keeps one board per      *)
(* session, calls one engine function per player action and stores the     *)
(* returned board; a ValueError raised by the engine leaves the stored     *)
(* board as it was.                                                        *)
(*                                                                         *)
(* Representation.                                                         *)
(*   - a coordinate [r, c] / (r, c) is the tuple <<r, c>>, 0-based;         *)
(*   - "mines" and "revealed" are lists the code always builds from a set  *)
(*     or from random.sample, hence without repetition: they are sets;     *)
(*   - "flagged" and "immune_flags" are lists the code appends to and     *)
(*     removes from: they are bags (multisets), the order of a list is     *)
(*     never inspected by the engine;                                      *)
(*   - "adjacent_counts" is a function whose domain is the set of string   *)
(*     keys "r,c";                                                         *)
(*   - an optional mine_count is None (<<>>) or <<n>>;                      *)
(*   - score_call is the call of calculate_score under way: None, or its   *)
(*     arguments with its result (None until the function has returned);   *)
(*   - session is the session that stores the board, the GameSession row   *)
(*     of a registered player that was stored last or the "guest_game"     *)
(*     dictionary of a guest, with the fields the handlers test; others    *)
(*     holds the other GameSession rows of the player, each with its       *)
(*     board, the row stored last first; settings holds the values of      *)
(*     django.conf.settings that size the first level.  session and        *)
(*     settings are None and others is empty where the engine is called    *)
(*     without a session;                                                  *)
(*   - fill is the run of _flood_fill_reveal under way (None, or its       *)
(*     arguments, its stack and its new_revealed), level_call the call of  *)
(*     the level-scaling policy under way (None, or the level with the     *)
(*     grid size and the mine count computed for it);                      *)
(*   - a key missing from the dictionary reads as the default that the     *)
(*     code's board.get(key, default) supplies.                            *)
(***************************************************************************)
EXTENDS Bags, FiniteSets, Integers, Sequences, TLC

VARIABLES board, raised, score_call, session, others, settings, fill, level_call

vars == <<board, raised, score_call, session, others, settings, fill, level_call>>

(***************************************************************************)
(* Bounds of the exploration.                                              *)
(***************************************************************************)
MaxSide == 3

MaxCells == 9

MaxMines == 3

MaxFlags == 2

\* the arguments of calculate_score
MaxLevel == 2

MaxCellsRevealed == 50

MaxTime == 301

MaxClues == 3

\* the flags on the board of a run of _flood_fill_reveal
MaxFloodFlags == 1

\* the levels of a session
MaxLevelNumber == 450

\* the settings of the sessions: base_rows, base_cols up to MaxBaseSide with
\* at most MaxBaseCells cells, base_mines up to MaxBaseMines; the GameSession
\* rows kept for a player
MaxBaseSide == 2

MaxBaseCells == 2

MaxBaseMines == 0

MaxRows == 2

\* the cells of the boards of the rows kept for a player
MaxPlayerCells == 8

\* the flags a player places on the board of a session
MaxSessionFlags == 1

\* the wide grids: one or two rows, up to MaxRegionCols columns and
\* MaxRegionCells cells; the mines and the player's flags on them
MaxRegionCols == 6

MaxRegionCells == 10

MaxRegionFlags == 2

MaxRegionMines == 1

\* the grids explored: rows x cols
GridSizes ==
    {g \in (1 .. MaxSide) \X (1 .. MaxSide) : g[1] * g[2] <= MaxCells}

(***************************************************************************)
(* Argument values.                                                        *)
(***************************************************************************)
None == <<>>

\* row and col arguments: every in-bounds index and one out-of-bounds index
\* on each side of the grid
RowArgs(brd) == -1 .. brd.rows

ColArgs(brd) == -1 .. brd.cols

\* mine_count arguments: None, every count up to MaxMines and one negative
\* count
MineCountArgs == {None} \cup {<<n>> : n \in -1 .. MaxMines}

\* the engine reads mine_count only while the board is uninitialized
MineCountArgsFor(brd) ==
    IF brd.initialized THEN {<<MaxMines>>} ELSE MineCountArgs

\* the flags the player placed: those that are not immune
PlayerFlags(brd) ==
    BagCardinality(brd.flagged) - BagCardinality(brd.immune_flags)

NoSample == {}

(***************************************************************************)
(* GameEngine.DIRECTIONS                                                   *)
(***************************************************************************)
DIRECTIONS ==
    << <<-1, -1>>, <<-1, 0>>, <<-1, 1>>,
       <<0, -1>>,             <<0, 1>>,
       <<1, -1>>,  <<1, 0>>,  <<1, 1>> >>

\* 0 <= row < rows and 0 <= col < cols
InBounds(row, col, rows, cols) ==
    0 <= row /\ row < rows /\ 0 <= col /\ col < cols

\* f"{r},{c}"
CoordKey(r, c) == ToString(r) \o "," \o ToString(c)

\* dict.get(key, default)
DictGet(dict, key, default) ==
    IF key \in DOMAIN dict THEN dict[key] ELSE default

\* GameEngine._to_coord_set
_to_coord_set(coord_list) == BagToSet(coord_list)

\* the in-bounds neighbours of (row, col), in the order of DIRECTIONS
Neighbors(row, col, rows, cols) ==
    LET cand == [i \in 1 .. Len(DIRECTIONS) |->
                    <<row + DIRECTIONS[i][1], col + DIRECTIONS[i][2]>>]
    IN  SelectSeq(cand, LAMBDA p : InBounds(p[1], p[2], rows, cols))

SeqRange(s) == {s[i] : i \in 1 .. Len(s)}

(***************************************************************************)
(* GameEngine.initialize_board                                             *)
(***************************************************************************)
excluded_cells_orthogonal(rows, cols, safe_start) ==
    {safe_start}
        \cup {n \in SeqRange(Neighbors(safe_start[1], safe_start[2], rows, cols)) :
                 n[1] = safe_start[1] \/ n[2] = safe_start[2]}

excluded_cells_safe_only(rows, cols, safe_start) == {safe_start}

excluded_cells(rows, cols, safe_start) ==
    {safe_start} \cup SeqRange(Neighbors(safe_start[1], safe_start[2], rows, cols))

all_cells(rows, cols, safe_start) ==
    {<<r, c>> : r \in 0 .. rows - 1, c \in 0 .. cols - 1}
        \ excluded_cells(rows, cols, safe_start)

\* random.sample(population, k) raises ValueError unless 0 <= k <= len
random_sample_raises(population, k) ==
    ~(0 <= k /\ k <= Cardinality(population))

initialize_board_raises_never(rows, cols, mine_count, safe_start) == FALSE

initialize_board_raises_at_capacity(rows, cols, mine_count, safe_start) ==
    mine_count >= Cardinality(all_cells(rows, cols, safe_start))

\* TRUE when initialize_board raises ValueError: in the "Validate mine
\* count" test or, past it, in random.sample
initialize_board_raises(rows, cols, mine_count, safe_start) ==
    \/ mine_count > Cardinality(all_cells(rows, cols, safe_start))
    \/ random_sample_raises(all_cells(rows, cols, safe_start), mine_count)

\* the ValueError of random.sample, raised for a negative mine_count
NegativeSample == "ValueError: Sample larger than population or is negative"

\* the ValueError that initialize_board raises
initialize_board_error(rows, cols, mine_count, safe_start) ==
    IF mine_count > Cardinality(all_cells(rows, cols, safe_start))
    THEN "ValueError: Cannot place mines"
    ELSE NegativeSample

\* the possible results of random.sample(population, k), 0 <= k <= len
random_sample(population, k) ==
    {S \in SUBSET population : Cardinality(S) = k}

_count_adjacent_mines_orthogonal(row, col, rows, cols, mines) ==
    LET ns == Neighbors(row, col, rows, cols)
    IN  Cardinality({i \in 1 .. Len(ns) :
                        ns[i] \in mines /\ (ns[i][1] = row \/ ns[i][2] = col)})

_count_adjacent_mines(row, col, rows, cols, mines) ==
    LET ns == Neighbors(row, col, rows, cols)
    IN  Cardinality({i \in 1 .. Len(ns) : ns[i] \in mines})

\* mine_positions is the outcome of random.sample(all_cells, mine_count)
initialize_board(rows, cols, mine_count, safe_start, mine_positions) ==
    LET mines_set == mine_positions
        safe == {<<r, c>> : r \in 0 .. rows - 1, c \in 0 .. cols - 1} \ mines_set
        key_cell == [k \in {CoordKey(p[1], p[2]) : p \in safe} |->
                        CHOOSE p \in safe : CoordKey(p[1], p[2]) = k]
    IN  [rows            |-> rows,
         cols            |-> cols,
         mines           |-> mine_positions,
         revealed        |-> {},
         flagged         |-> EmptyBag,
         immune_flags    |-> EmptyBag,
         adjacent_counts |-> [k \in DOMAIN key_cell |->
                                _count_adjacent_mines(key_cell[k][1], key_cell[k][2],
                                                      rows, cols, mines_set)],
         game_over       |-> FALSE,
         won             |-> FALSE,
         initialized     |-> TRUE]

(***************************************************************************)
(* GameEngine._flood_fill_reveal                                           *)
(***************************************************************************)
RECURSIVE FloodLoop(_, _, _, _, _, _, _)
\* the "while stack" loop; stack.pop() takes the last element
FloodLoop(stack, new_revealed, rows, cols, flagged, mines, brd) ==
    IF stack = <<>> THEN new_revealed
    ELSE
      LET rc   == stack[Len(stack)]
          rest == SubSeq(stack, 1, Len(stack) - 1)
      IN  IF rc \in new_revealed \/ rc \in flagged \/ rc \in mines
          THEN FloodLoop(rest, new_revealed, rows, cols, flagged, mines, brd)
          ELSE
            LET now == new_revealed \cup {rc}
                adjacent_count ==
                    DictGet(brd.adjacent_counts, CoordKey(rc[1], rc[2]), 0)
                pushed ==
                    IF adjacent_count = 0
                    THEN SelectSeq(Neighbors(rc[1], rc[2], rows, cols),
                                   LAMBDA p : p \notin now)
                    ELSE <<>>
            IN  FloodLoop(rest \o pushed, now, rows, cols, flagged, mines, brd)

\* the start cell and, when its count is 0, its neighbours: no cell is pushed
\* for a neighbour
_flood_fill_reveal_one_level(start_row, start_col, rows, cols, revealed, flagged, mines, brd) ==
    LET rc == <<start_row, start_col>>
    IN  IF rc \in revealed \/ rc \in flagged \/ rc \in mines
        THEN revealed
        ELSE IF DictGet(brd.adjacent_counts, CoordKey(rc[1], rc[2]), 0) = 0
        THEN revealed \cup {rc}
                 \cup {p \in SeqRange(Neighbors(rc[1], rc[2], rows, cols)) :
                          p \notin flagged /\ p \notin mines}
        ELSE revealed \cup {rc}

_flood_fill_reveal(start_row, start_col, rows, cols, revealed, flagged, mines, brd) ==
    FloodLoop(<< <<start_row, start_col>> >>, revealed, rows, cols, flagged, mines, brd)

(***************************************************************************)
(* GameEngine._check_win_condition                                         *)
(***************************************************************************)
_check_win_condition_all_cells(brd) ==
    LET total_cells    == brd.rows * brd.cols
        revealed_count == Cardinality(brd.revealed)
    IN  IF revealed_count = total_cells
        THEN [brd EXCEPT !.game_over = TRUE, !.won = TRUE]
        ELSE brd

_check_win_condition(brd) ==
    LET total_cells    == brd.rows * brd.cols
        mines_count    == Cardinality(brd.mines)
        revealed_count == Cardinality(brd.revealed)
    IN  IF revealed_count = total_cells - mines_count
        THEN [brd EXCEPT !.game_over = TRUE, !.won = TRUE]
        ELSE brd

(***************************************************************************)
(* GameEngine.reveal_cell                                                  *)
(***************************************************************************)
hit_mine_drops_flags(brd, revealed_set, mines_set) ==
    [brd EXCEPT !.game_over = TRUE,
                !.won = FALSE,
                !.revealed = revealed_set \cup mines_set,
                !.flagged = brd.immune_flags]

hit_mine_only_mines(brd, revealed_set, mines_set) ==
    [brd EXCEPT !.game_over = TRUE,
                !.won = FALSE,
                !.revealed = mines_set]

hit_mine_no_disclosure(brd, revealed_set, mines_set) ==
    [brd EXCEPT !.game_over = TRUE,
                !.won = FALSE,
                !.revealed = revealed_set]

hit_mine_wins(brd, revealed_set, mines_set) ==
    [brd EXCEPT !.game_over = TRUE,
                !.won = TRUE,
                !.revealed = revealed_set \cup mines_set]

hit_mine_keeps_playing(brd, revealed_set, mines_set) ==
    [brd EXCEPT !.won = FALSE,
                !.revealed = revealed_set \cup mines_set]

\* the "Check if hit a mine" branch
hit_mine(brd, revealed_set, mines_set) ==
    [brd EXCEPT !.game_over = TRUE,
                !.won = FALSE,
                !.revealed = revealed_set \cup mines_set]

reveal_cell_raises_before_bounds(brd, row, col, mine_count) ==
    /\ ~brd.game_over
    /\ ~brd.initialized
    /\ \/ mine_count = None
       \/ initialize_board_raises(brd.rows, brd.cols, mine_count[1], <<row, col>>)

reveal_cell_raises_bad_count_only(brd, row, col, mine_count) ==
    /\ ~brd.game_over
    /\ InBounds(row, col, brd.rows, brd.cols)
    /\ ~brd.initialized
    /\ mine_count # None
    /\ initialize_board_raises(brd.rows, brd.cols, mine_count[1], <<row, col>>)

\* TRUE when reveal_cell raises ValueError
reveal_cell_raises(brd, row, col, mine_count) ==
    /\ ~brd.game_over
    /\ InBounds(row, col, brd.rows, brd.cols)
    /\ ~brd.initialized
    /\ \/ mine_count = None
       \/ initialize_board_raises(brd.rows, brd.cols, mine_count[1], <<row, col>>)

\* the ValueError that reveal_cell raises
reveal_cell_error(brd, row, col, mine_count) ==
    IF mine_count = None
    THEN "ValueError: mine_count must be provided for uninitialized board"
    ELSE initialize_board_error(brd.rows, brd.cols, mine_count[1], <<row, col>>)

\* the outcomes random.sample can have inside reveal_cell
reveal_cell_samples(brd, row, col, mine_count) ==
    IF /\ ~brd.game_over
       /\ InBounds(row, col, brd.rows, brd.cols)
       /\ ~brd.initialized
    THEN random_sample(all_cells(brd.rows, brd.cols, <<row, col>>), mine_count[1])
    ELSE {NoSample}

reveal_initialized_ignores_flags(brd, row, col) ==
    LET rows         == brd.rows
        cols         == brd.cols
        revealed_set == brd.revealed
        flagged_set  == _to_coord_set(brd.flagged)
        mines_set    == brd.mines
    IN  IF <<row, col>> \in flagged_set \/ <<row, col>> \in revealed_set
        THEN brd
        ELSE IF <<row, col>> \in mines_set
        THEN hit_mine(brd, revealed_set, mines_set)
        ELSE _check_win_condition(
               [brd EXCEPT !.revealed =
                   _flood_fill_reveal(row, col, rows, cols,
                                      revealed_set, {}, mines_set, brd)])

\* the part of reveal_cell after the board is known to be initialized
reveal_initialized(brd, row, col) ==
    LET rows         == brd.rows
        cols         == brd.cols
        revealed_set == brd.revealed
        flagged_set  == _to_coord_set(brd.flagged)
        mines_set    == brd.mines
    IN  IF <<row, col>> \in flagged_set \/ <<row, col>> \in revealed_set
        THEN brd
        ELSE IF <<row, col>> \in mines_set
        THEN hit_mine(brd, revealed_set, mines_set)
        ELSE _check_win_condition(
               [brd EXCEPT !.revealed =
                   _flood_fill_reveal(row, col, rows, cols,
                                      revealed_set, flagged_set, mines_set, brd)])

reveal_cell_keeps_flags(brd, row, col, mine_count, mine_positions) ==
    IF brd.game_over THEN brd
    ELSE IF ~InBounds(row, col, brd.rows, brd.cols) THEN brd
    ELSE IF ~brd.initialized
    THEN reveal_initialized(
           [initialize_board(brd.rows, brd.cols, mine_count[1],
                             <<row, col>>, mine_positions)
               EXCEPT !.flagged = brd.flagged], row, col)
    ELSE reveal_initialized(brd, row, col)

reveal_cell_places_mines_again(brd, row, col, mine_count, mine_positions) ==
    IF brd.game_over THEN brd
    ELSE IF ~InBounds(row, col, brd.rows, brd.cols) THEN brd
    ELSE IF ~brd.initialized
    THEN reveal_initialized(
           initialize_board(brd.rows, brd.cols, mine_count[1],
                            <<row, col>>, mine_positions), row, col)
    ELSE reveal_initialized(
           initialize_board(brd.rows, brd.cols, 0, <<row, col>>, {}), row, col)

reveal_cell_after_game_over(brd, row, col, mine_count, mine_positions) ==
    IF ~InBounds(row, col, brd.rows, brd.cols) THEN brd
    ELSE IF ~brd.initialized
    THEN reveal_initialized(
           initialize_board(brd.rows, brd.cols, mine_count[1],
                            <<row, col>>, mine_positions), row, col)
    ELSE reveal_initialized(brd, row, col)

\* defined when reveal_cell_raises is FALSE
reveal_cell(brd, row, col, mine_count, mine_positions) ==
    IF brd.game_over THEN brd
    ELSE IF ~InBounds(row, col, brd.rows, brd.cols) THEN brd
    ELSE IF ~brd.initialized
    THEN reveal_initialized(
           initialize_board(brd.rows, brd.cols, mine_count[1],
                            <<row, col>>, mine_positions), row, col)
    ELSE reveal_initialized(brd, row, col)

(***************************************************************************)
(* GameEngine.toggle_flag                                                  *)
(***************************************************************************)
toggle_coord_add_only(flagged, coord) ==
    flagged (+) SetToBag({coord})

\* "if coord in flagged: flagged.remove(coord) else: flagged.append(coord)"
toggle_coord(flagged, coord) ==
    IF BagIn(coord, flagged)
    THEN flagged (-) SetToBag({coord})
    ELSE flagged (+) SetToBag({coord})

toggle_flag_initializes(brd, row, col) ==
    IF brd.game_over THEN brd
    ELSE IF ~InBounds(row, col, brd.rows, brd.cols) THEN brd
    ELSE IF <<row, col>> \in brd.revealed THEN brd
    ELSE IF <<row, col>> \in _to_coord_set(brd.immune_flags) THEN brd
    ELSE [brd EXCEPT !.flagged = toggle_coord(brd.flagged, <<row, col>>),
                     !.initialized = TRUE]

toggle_flag_after_game_over(brd, row, col) ==
    IF ~InBounds(row, col, brd.rows, brd.cols) THEN brd
    ELSE IF <<row, col>> \in brd.revealed THEN brd
    ELSE IF <<row, col>> \in _to_coord_set(brd.immune_flags) THEN brd
    ELSE [brd EXCEPT !.flagged = toggle_coord(brd.flagged, <<row, col>>)]

toggle_flag_on_revealed(brd, row, col) ==
    IF brd.game_over THEN brd
    ELSE IF ~InBounds(row, col, brd.rows, brd.cols) THEN brd
    ELSE IF <<row, col>> \in _to_coord_set(brd.immune_flags) THEN brd
    ELSE [brd EXCEPT !.flagged = toggle_coord(brd.flagged, <<row, col>>)]

toggle_flag_on_immune(brd, row, col) ==
    IF brd.game_over THEN brd
    ELSE IF ~InBounds(row, col, brd.rows, brd.cols) THEN brd
    ELSE IF <<row, col>> \in brd.revealed THEN brd
    ELSE [brd EXCEPT !.flagged = toggle_coord(brd.flagged, <<row, col>>)]

toggle_flag(brd, row, col) ==
    IF brd.game_over THEN brd
    ELSE IF ~InBounds(row, col, brd.rows, brd.cols) THEN brd
    ELSE IF <<row, col>> \in brd.revealed THEN brd
    ELSE IF <<row, col>> \in _to_coord_set(brd.immune_flags) THEN brd
    ELSE [brd EXCEPT !.flagged = toggle_coord(brd.flagged, <<row, col>>)]

(***************************************************************************)
(* GameEngine.apply_clue                                                   *)
(***************************************************************************)
add_immune_flag_and_reveal(brd, row, col) ==
    [brd EXCEPT !.flagged      = @ (+) SetToBag({<<row, col>>}),
                !.immune_flags = @ (+) SetToBag({<<row, col>>}),
                !.revealed     = @ \cup {<<row, col>>}]

add_immune_flag_only(brd, row, col) ==
    [brd EXCEPT !.immune_flags = @ (+) SetToBag({<<row, col>>})]

\* the "Cell is a mine - add immune flag" branch
add_immune_flag(brd, row, col) ==
    [brd EXCEPT !.flagged      = @ (+) SetToBag({<<row, col>>}),
                !.immune_flags = @ (+) SetToBag({<<row, col>>})]

\* TRUE when apply_clue raises ValueError (only through reveal_cell)
apply_clue_raises(brd, row, col, mine_count) ==
    /\ ~brd.game_over
    /\ InBounds(row, col, brd.rows, brd.cols)
    /\ ~brd.initialized
    /\ reveal_cell_raises(brd, row, col, mine_count)

apply_clue_flags_every_cell(brd, row, col, mine_count, mine_positions) ==
    IF brd.game_over THEN brd
    ELSE IF ~InBounds(row, col, brd.rows, brd.cols) THEN brd
    ELSE IF ~brd.initialized
    THEN reveal_cell(brd, row, col, mine_count, mine_positions)
    ELSE IF \/ <<row, col>> \in brd.revealed
            \/ <<row, col>> \in _to_coord_set(brd.flagged)
    THEN brd
    ELSE add_immune_flag(brd, row, col)

apply_clue_no_flood(brd, row, col, mine_count, mine_positions) ==
    IF brd.game_over THEN brd
    ELSE IF ~InBounds(row, col, brd.rows, brd.cols) THEN brd
    ELSE IF ~brd.initialized
    THEN reveal_cell(brd, row, col, mine_count, mine_positions)
    ELSE IF \/ <<row, col>> \in brd.revealed
            \/ <<row, col>> \in _to_coord_set(brd.flagged)
    THEN brd
    ELSE IF <<row, col>> \in brd.mines
    THEN add_immune_flag(brd, row, col)
    ELSE _check_win_condition([brd EXCEPT !.revealed = @ \cup {<<row, col>>}])

apply_clue_reveals_mine(brd, row, col, mine_count, mine_positions) ==
    IF brd.game_over THEN brd
    ELSE IF ~InBounds(row, col, brd.rows, brd.cols) THEN brd
    ELSE IF ~brd.initialized
    THEN reveal_cell(brd, row, col, mine_count, mine_positions)
    ELSE IF \/ <<row, col>> \in brd.revealed
            \/ <<row, col>> \in _to_coord_set(brd.flagged)
    THEN brd
    ELSE reveal_cell(brd, row, col, None, NoSample)

apply_clue_unchecked(brd, row, col, mine_count, mine_positions) ==
    IF brd.game_over THEN brd
    ELSE IF ~InBounds(row, col, brd.rows, brd.cols) THEN brd
    ELSE IF ~brd.initialized
    THEN reveal_cell(brd, row, col, mine_count, mine_positions)
    ELSE IF <<row, col>> \in brd.mines
    THEN add_immune_flag(brd, row, col)
    ELSE reveal_cell(brd, row, col, None, NoSample)

\* defined when apply_clue_raises is FALSE
apply_clue(brd, row, col, mine_count, mine_positions) ==
    IF brd.game_over THEN brd
    ELSE IF ~InBounds(row, col, brd.rows, brd.cols) THEN brd
    ELSE IF ~brd.initialized
    THEN reveal_cell(brd, row, col, mine_count, mine_positions)
    ELSE IF \/ <<row, col>> \in brd.revealed
            \/ <<row, col>> \in _to_coord_set(brd.flagged)
    THEN brd
    ELSE IF <<row, col>> \in brd.mines
    THEN add_immune_flag(brd, row, col)
    ELSE reveal_cell(brd, row, col, None, NoSample)

(***************************************************************************)
(* GameEngine.chord_reveal                                                 *)
(***************************************************************************)
RECURSIVE ChordLoop(_, _, _, _, _)
\* the "for nr, nc in neighbors" loop, from the i-th neighbour on
ChordLoop(brd, neighbors, i, flagged_set, revealed_set) ==
    IF i > Len(neighbors) THEN brd
    ELSE IF neighbors[i] \notin flagged_set /\ neighbors[i] \notin revealed_set
    THEN LET next == reveal_cell(brd, neighbors[i][1], neighbors[i][2], None, NoSample)
         IN  IF next.game_over THEN next
             ELSE ChordLoop(next, neighbors, i + 1, flagged_set, revealed_set)
    ELSE ChordLoop(brd, neighbors, i + 1, flagged_set, revealed_set)

chord_reveal_reversed(brd, row, col) ==
    IF brd.game_over THEN brd
    ELSE IF ~InBounds(row, col, brd.rows, brd.cols) THEN brd
    ELSE
      LET revealed_set   == brd.revealed
          flagged_set    == _to_coord_set(brd.flagged)
          adjacent_count == DictGet(brd.adjacent_counts, CoordKey(row, col), 0)
          neighbors      == Neighbors(row, col, brd.rows, brd.cols)
          backwards      == [i \in 1 .. Len(neighbors) |->
                                neighbors[Len(neighbors) + 1 - i]]
          adjacent_flags ==
              Cardinality({i \in 1 .. Len(neighbors) : neighbors[i] \in flagged_set})
      IN  IF <<row, col>> \notin revealed_set THEN brd
          ELSE IF adjacent_count = 0 THEN brd
          ELSE IF adjacent_flags # adjacent_count THEN brd
          ELSE ChordLoop(brd, backwards, 1, flagged_set, revealed_set)

chord_reveal_skips_first(brd, row, col) ==
    IF brd.game_over THEN brd
    ELSE IF ~InBounds(row, col, brd.rows, brd.cols) THEN brd
    ELSE
      LET revealed_set   == brd.revealed
          flagged_set    == _to_coord_set(brd.flagged)
          adjacent_count == DictGet(brd.adjacent_counts, CoordKey(row, col), 0)
          neighbors      == Neighbors(row, col, brd.rows, brd.cols)
          adjacent_flags ==
              Cardinality({i \in 1 .. Len(neighbors) : neighbors[i] \in flagged_set})
      IN  IF <<row, col>> \notin revealed_set THEN brd
          ELSE IF adjacent_count = 0 THEN brd
          ELSE IF adjacent_flags # adjacent_count THEN brd
          ELSE ChordLoop(brd, neighbors, 2, flagged_set, revealed_set)

chord_reveal_extra_flags(brd, row, col) ==
    IF brd.game_over THEN brd
    ELSE IF ~InBounds(row, col, brd.rows, brd.cols) THEN brd
    ELSE
      LET revealed_set   == brd.revealed
          flagged_set    == _to_coord_set(brd.flagged)
          adjacent_count == DictGet(brd.adjacent_counts, CoordKey(row, col), 0)
          neighbors      == Neighbors(row, col, brd.rows, brd.cols)
          adjacent_flags ==
              Cardinality({i \in 1 .. Len(neighbors) : neighbors[i] \in flagged_set})
      IN  IF <<row, col>> \notin revealed_set THEN brd
          ELSE IF adjacent_count = 0 THEN brd
          ELSE IF adjacent_flags < adjacent_count THEN brd
          ELSE ChordLoop(brd, neighbors, 1, flagged_set, revealed_set)

chord_reveal(brd, row, col) ==
    IF brd.game_over THEN brd
    ELSE IF ~InBounds(row, col, brd.rows, brd.cols) THEN brd
    ELSE
      LET revealed_set   == brd.revealed
          flagged_set    == _to_coord_set(brd.flagged)
          adjacent_count == DictGet(brd.adjacent_counts, CoordKey(row, col), 0)
          neighbors      == Neighbors(row, col, brd.rows, brd.cols)
          adjacent_flags ==
              Cardinality({i \in 1 .. Len(neighbors) : neighbors[i] \in flagged_set})
      IN  IF <<row, col>> \notin revealed_set THEN brd
          ELSE IF adjacent_count = 0 THEN brd
          ELSE IF adjacent_flags # adjacent_count THEN brd
          ELSE ChordLoop(brd, neighbors, 1, flagged_set, revealed_set)

(***************************************************************************)
(* GameEngine.calculate_score                                              *)
(***************************************************************************)
max(a, b) == IF a >= b THEN a ELSE b

calculate_score_unclamped(level, cells_revealed, time_elapsed, clues_used, won) ==
    LET base_score   == 100 * level
        cell_bonus   == 10 * cells_revealed
        time_bonus   == 300 - time_elapsed
        clue_penalty == 50 * clues_used
        win_bonus    == IF won THEN 500 * level ELSE 0
        total        == base_score + cell_bonus + time_bonus - clue_penalty + win_bonus
    IN  max(0, total)

calculate_score(level, cells_revealed, time_elapsed, clues_used, won) ==
    LET base_score   == 100 * level
        cell_bonus   == 10 * cells_revealed
        time_bonus   == max(0, 300 - time_elapsed)
        clue_penalty == 50 * clues_used
        win_bonus    == IF won THEN 500 * level ELSE 0
        total        == base_score + cell_bonus + time_bonus - clue_penalty + win_bonus
    IN  max(0, total)

(***************************************************************************)
(* GameEngine.render_for_frontend                                          *)
(*                                                                         *)
(* A cell state is a record: [kind |-> "number", value |-> n] for the      *)
(* integer n, and [kind |-> s, value |-> 0] for the string s.              *)
(***************************************************************************)
CellNumber(n) == [kind |-> "number", value |-> n]

CellName(s) == [kind |-> s, value |-> 0]

reveal_mines_always(show_all, game_over) == TRUE

\* reveal_mines = show_all or game_over
reveal_mines(show_all, game_over) == show_all \/ game_over

cell_state(brd, r, c, show_all) ==
    LET revealed_set == brd.revealed
        flagged_set  == _to_coord_set(brd.flagged)
        immune_set   == _to_coord_set(brd.immune_flags)
        mines_set    == brd.mines
    IN  IF <<r, c>> \in revealed_set
        THEN IF <<r, c>> \in mines_set
             THEN CellName("mine_hit")
             ELSE CellNumber(DictGet(brd.adjacent_counts, CoordKey(r, c), 0))
        ELSE IF <<r, c>> \in immune_set THEN CellName("flagged_immune")
        ELSE IF <<r, c>> \in flagged_set THEN CellName("flagged")
        ELSE IF reveal_mines(show_all, brd.game_over) /\ <<r, c>> \in mines_set
        THEN CellName("mine")
        ELSE CellName("hidden")

\* cells[r + 1][c + 1] is the state of the cell (r, c)
render_for_frontend(brd, show_all) ==
    [rows           |-> brd.rows,
     cols           |-> brd.cols,
     cells          |-> [r1 \in 1 .. brd.rows |->
                           [c1 \in 1 .. brd.cols |->
                              cell_state(brd, r1 - 1, c1 - 1, show_all)]],
     game_over      |-> brd.game_over,
     won            |-> brd.won,
     flags_count    |-> Cardinality(_to_coord_set(brd.flagged)),
     mines_count    |-> Cardinality(brd.mines),
     revealed_count |-> Cardinality(brd.revealed),
     initialized    |-> brd.initialized]

(***************************************************************************)
(* The board of a new session: GameSession._get_default_board_state, and   *)
(* {'rows': rows, 'cols': cols, 'initialized': False} of a guest session.  *)
(***************************************************************************)
_get_default_board_state(rows, cols) ==
    [rows            |-> rows,
     cols            |-> cols,
     mines           |-> {},
     revealed        |-> {},
     flagged         |-> EmptyBag,
     immune_flags    |-> EmptyBag,
     adjacent_counts |-> <<>>,
     game_over       |-> FALSE,
     won             |-> FALSE,
     initialized     |-> FALSE]

\* GameActionView.post after the engine call: session.is_active
session_is_active(active, brd) ==
    IF brd.game_over
    THEN LET won       == brd.won
             first_set == ~won
         IN  IF ~won THEN FALSE ELSE first_set
    ELSE active

\* GameActionView._handle_guest_action after the engine call:
\* guest_data['is_active']
guest_is_active(active, brd) ==
    IF brd.game_over THEN brd.won ELSE active

Init ==
    /\ \E g \in GridSizes : board = _get_default_board_state(g[1], g[2])
    /\ raised = "none"
    /\ score_call = None
    /\ session = None
    /\ others = <<>>
    /\ settings = None
    /\ fill = None
    /\ level_call = None

(***************************************************************************)
(* The engine called on one board, by any caller: one action per function  *)
(* of GameEngine that takes a board and returns one, with any coordinates  *)
(* and, on an uninitialized board, any mine_count.                         *)
(***************************************************************************)
Reveal ==
    \E row \in RowArgs(board), col \in ColArgs(board), mine_count \in MineCountArgsFor(board) :
        IF reveal_cell_raises(board, row, col, mine_count)
        THEN /\ raised' = reveal_cell_error(board, row, col, mine_count)
             /\ UNCHANGED <<board, score_call, session, others, settings, fill, level_call>>
        ELSE \E mine_positions \in reveal_cell_samples(board, row, col, mine_count) :
               /\ board' = reveal_cell(board, row, col, mine_count, mine_positions)
               /\ raised' = "none"
               /\ UNCHANGED <<score_call, session, others, settings, fill, level_call>>

ToggleFlag ==
    \E row \in RowArgs(board), col \in ColArgs(board) :
        /\ \/ PlayerFlags(board) < MaxFlags
           \/ BagIn(<<row, col>>, board.flagged)
        /\ board' = toggle_flag(board, row, col)
        /\ raised' = "none"
        /\ UNCHANGED <<score_call, session, others, settings, fill, level_call>>

ApplyClue ==
    \E row \in RowArgs(board), col \in ColArgs(board), mine_count \in MineCountArgsFor(board) :
        IF apply_clue_raises(board, row, col, mine_count)
        THEN /\ raised' = reveal_cell_error(board, row, col, mine_count)
             /\ UNCHANGED <<board, score_call, session, others, settings, fill, level_call>>
        ELSE \E mine_positions \in reveal_cell_samples(board, row, col, mine_count) :
               /\ board' = apply_clue(board, row, col, mine_count, mine_positions)
               /\ raised' = "none"
               /\ UNCHANGED <<score_call, session, others, settings, fill, level_call>>

ChordReveal ==
    \E row \in RowArgs(board), col \in ColArgs(board) :
        /\ board' = chord_reveal(board, row, col)
        /\ raised' = "none"
        /\ UNCHANGED <<score_call, session, others, settings, fill, level_call>>

Next == Reveal \/ ToggleFlag \/ ApplyClue \/ ChordReveal

Spec == Init /\ [][Next]_vars

(***************************************************************************)
(* The engine called on one wide board.  initialize_board keeps the mines  *)
(* off the first cell and its neighbours, and the first reveal floods the  *)
(* zero-count region around it, so a zero-count cell stays unrevealed only *)
(* beyond a mine, at least four columns from the first cell.  On the 1 x 6 *)
(* grid a first reveal at one end leaves up to two zero-count cells and    *)
(* the numbered cell before them unrevealed: a flood fill from the far     *)
(* cell takes two steps, a flag on the cell between stops it, and with two *)
(* flags the cell between can be revealed alone beforehand.  On the 2 x 5  *)
(* grid it leaves up to two zero-count cells in the last column and the    *)
(* numbered cells of the column before: with one of the two flagged, the   *)
(* numbered cell next to the flag is reached from the other by a diagonal  *)
(* step only.  The calls are those of Next with in-bounds coordinates and, *)
(* on an uninitialized board, a mine_count of at most MaxRegionMines.      *)
(***************************************************************************)
RegionGrids ==
    {g \in (1 .. 2) \X (1 .. MaxRegionCols) : g[1] * g[2] <= MaxRegionCells}

RegionMineCounts(brd) ==
    IF brd.initialized
    THEN {<<MaxRegionMines>>}
    ELSE {<<n>> : n \in 0 .. MaxRegionMines}

RegionInit ==
    /\ \E g \in RegionGrids : board = _get_default_board_state(g[1], g[2])
    /\ raised = "none"
    /\ score_call = None
    /\ session = None
    /\ others = <<>>
    /\ settings = None
    /\ fill = None
    /\ level_call = None

RegionReveal ==
    \E row \in 0 .. board.rows - 1, col \in 0 .. board.cols - 1,
       mine_count \in RegionMineCounts(board) :
        IF reveal_cell_raises(board, row, col, mine_count)
        THEN /\ raised' = reveal_cell_error(board, row, col, mine_count)
             /\ UNCHANGED <<board, score_call, session, others, settings, fill, level_call>>
        ELSE \E mine_positions \in reveal_cell_samples(board, row, col, mine_count) :
               /\ board' = reveal_cell(board, row, col, mine_count, mine_positions)
               /\ raised' = "none"
               /\ UNCHANGED <<score_call, session, others, settings, fill, level_call>>

RegionToggleFlag ==
    \E row \in 0 .. board.rows - 1, col \in 0 .. board.cols - 1 :
        /\ \/ PlayerFlags(board) < MaxRegionFlags
           \/ BagIn(<<row, col>>, board.flagged)
        /\ board' = toggle_flag(board, row, col)
        /\ raised' = "none"
        /\ UNCHANGED <<score_call, session, others, settings, fill, level_call>>

RegionApplyClue ==
    \E row \in 0 .. board.rows - 1, col \in 0 .. board.cols - 1,
       mine_count \in RegionMineCounts(board) :
        IF apply_clue_raises(board, row, col, mine_count)
        THEN /\ raised' = reveal_cell_error(board, row, col, mine_count)
             /\ UNCHANGED <<board, score_call, session, others, settings, fill, level_call>>
        ELSE \E mine_positions \in reveal_cell_samples(board, row, col, mine_count) :
               /\ board' = apply_clue(board, row, col, mine_count, mine_positions)
               /\ raised' = "none"
               /\ UNCHANGED <<score_call, session, others, settings, fill, level_call>>

RegionChordReveal ==
    \E row \in 0 .. board.rows - 1, col \in 0 .. board.cols - 1 :
        /\ board' = chord_reveal(board, row, col)
        /\ raised' = "none"
        /\ UNCHANGED <<score_call, session, others, settings, fill, level_call>>

RegionNext == RegionReveal \/ RegionToggleFlag \/ RegionApplyClue \/ RegionChordReveal

RegionSpec == RegionInit /\ [][RegionNext]_vars

(***************************************************************************)
(* The calls of GameEngine.calculate_score: every argument list within the *)
(* bounds, each evaluated once.                                            *)
(***************************************************************************)
ScoreArgs ==
    [level          : 1 .. MaxLevel,
     cells_revealed : 0 .. MaxCellsRevealed,
     time_elapsed   : 0 .. MaxTime,
     clues_used     : 0 .. MaxClues,
     won            : BOOLEAN,
     result         : {None}]

ScoreInit ==
    /\ board = _get_default_board_state(1, 1)
    /\ raised = "none"
    /\ score_call \in ScoreArgs
    /\ session = None
    /\ others = <<>>
    /\ settings = None
    /\ fill = None
    /\ level_call = None

CalculateScore ==
    /\ score_call.result = None
    /\ score_call' =
           [score_call EXCEPT !.result =
               <<calculate_score(score_call.level, score_call.cells_revealed,
                                 score_call.time_elapsed, score_call.clues_used,
                                 score_call.won)>>]
    /\ UNCHANGED <<board, raised, session, others, settings, fill, level_call>>

ScoreNext == CalculateScore

ScoreSpec == ScoreInit /\ [][ScoreNext]_vars

(***************************************************************************)
(* The level-scaling policy: GameSession.calculate_grid_size and           *)
(* calculate_mine_count for a registered session, and the same             *)
(* computation inside GameActionView._handle_guest_action for a guest.     *)
(* The settings have the defaults that getattr(settings, ...) supplies.    *)
(***************************************************************************)
ROGUESWEEPER_BASE_ROWS == 8

ROGUESWEEPER_BASE_COLS == 8

ROGUESWEEPER_BASE_MINES == 10

ROGUESWEEPER_ROW_INCREMENT == 1

ROGUESWEEPER_COL_INCREMENT == 1

ROGUESWEEPER_MINE_INCREMENT == 2

ROGUESWEEPER_MAX_ROWS == 30

ROGUESWEEPER_MAX_COLS == 30

min(a, b) == IF a <= b THEN a ELSE b

calculate_grid_size(level_number) ==
    LET rows == min(ROGUESWEEPER_BASE_ROWS
                        + (level_number - 1) * ROGUESWEEPER_ROW_INCREMENT,
                    ROGUESWEEPER_MAX_ROWS)
        cols == min(ROGUESWEEPER_BASE_COLS
                        + (level_number - 1) * ROGUESWEEPER_COL_INCREMENT,
                    ROGUESWEEPER_MAX_COLS)
    IN  <<rows, cols>>

calculate_mine_count(level_number) ==
    LET size      == calculate_grid_size(level_number)
        max_mines == (size[1] * size[2]) \div 4
        mines     == ROGUESWEEPER_BASE_MINES
                         + (level_number - 1) * ROGUESWEEPER_MINE_INCREMENT
    IN  min(mines, max_mines)

\* rows, cols and mine_count of _handle_guest_action
guest_level_policy(level) ==
    LET rows == min(ROGUESWEEPER_BASE_ROWS + (level - 1) * ROGUESWEEPER_ROW_INCREMENT,
                    ROGUESWEEPER_MAX_ROWS)
        cols == min(ROGUESWEEPER_BASE_COLS + (level - 1) * ROGUESWEEPER_COL_INCREMENT,
                    ROGUESWEEPER_MAX_COLS)
        mine_count == ROGUESWEEPER_BASE_MINES
                          + (level - 1) * ROGUESWEEPER_MINE_INCREMENT
    IN  [rows |-> rows, cols |-> cols, mine_count |-> mine_count]

\* rows, cols and mine_count of GameActionView.post for a registered session
session_level_policy(level_number) ==
    [rows       |-> calculate_grid_size(level_number)[1],
     cols       |-> calculate_grid_size(level_number)[2],
     mine_count |-> calculate_mine_count(level_number)]

LevelArgs ==
    [guest : BOOLEAN, level_number : 1 .. MaxLevelNumber, result : {None}]

LevelInit ==
    /\ board = _get_default_board_state(1, 1)
    /\ raised = "none"
    /\ score_call = None
    /\ session = None
    /\ others = <<>>
    /\ settings = None
    /\ fill = None
    /\ level_call \in LevelArgs

LevelPolicy ==
    /\ level_call.result = None
    /\ level_call' =
           [level_call EXCEPT !.result =
               <<IF level_call.guest
                 THEN guest_level_policy(level_call.level_number)
                 ELSE session_level_policy(level_call.level_number)>>]
    /\ UNCHANGED <<board, raised, score_call, session, others, settings, fill>>

LevelNext == LevelPolicy

LevelSpec == LevelInit /\ [][LevelNext]_vars

(***************************************************************************)
(* The web layer (src/game/views.py, src/game/auth_views.py,               *)
(* src/game/models.py): the game of one player, a registered player with   *)
(* GameSession rows or a guest with the "guest_game" dictionary of the     *)
(* Django session, whose requests are handled one after the other.  A      *)
(* request that is answered without anything having been stored (400, 401, *)
(* 404, the ValueError of the engine included) is no step.                 *)
(*   - session.guest tells the "guest_game" dictionary from a GameSession  *)
(*     row; a guest has no other rows;                                     *)
(*   - session.board_state_empty holds while guest_data['board_state'] is  *)
(*     {}: board then carries the rows and cols the guest handler computes *)
(*     for the level; GameSession.save never stores an empty board;        *)
(*   - session.has_score holds when a Score row refers to the session;     *)
(*   - GameSession is ordered by -updated_at and every save sets           *)
(*     updated_at, so the row a step stores becomes session and board and  *)
(*     the row that was there moves to the head of others.                 *)
(***************************************************************************)
ROGUESWEEPER_CLUES_PER_LEVEL == 1

\* imported by views.py and serializers.py from models.py, which does not
\* define it: taken to return, for every level, the setting that
\* advance_to_next_level and NextLevelView read (models.py:338, views.py:624).
\* It only sets the clues_remaining a session starts a level with.
get_clues_for_level(level) == ROGUESWEEPER_CLUES_PER_LEVEL

\* the settings explored: the grid and the mine count of level 1
SettingsArgs ==
    {s \in [base_rows : 1 .. MaxBaseSide, base_cols : 1 .. MaxBaseSide,
            base_mines : 0 .. MaxBaseMines] :
        /\ <<s.base_rows, s.base_cols>> \in GridSizes
        /\ s.base_rows * s.base_cols <= MaxBaseCells}

\* rows, cols of a level under the settings stg
level_grid_size(stg, level_number) ==
    <<min(stg.base_rows + (level_number - 1) * ROGUESWEEPER_ROW_INCREMENT,
          ROGUESWEEPER_MAX_ROWS),
      min(stg.base_cols + (level_number - 1) * ROGUESWEEPER_COL_INCREMENT,
          ROGUESWEEPER_MAX_COLS)>>

\* mine_count of a level: calculate_mine_count for a registered session,
\* the sum without the cap for a guest
level_mine_count(stg, guest, level_number) ==
    LET size      == level_grid_size(stg, level_number)
        max_mines == (size[1] * size[2]) \div 4
        mines     == stg.base_mines
                         + (level_number - 1) * ROGUESWEEPER_MINE_INCREMENT
    IN  IF guest THEN mines ELSE min(mines, max_mines)

\* the board a session of that level starts with
level_board(stg, level_number) ==
    _get_default_board_state(level_grid_size(stg, level_number)[1],
                             level_grid_size(stg, level_number)[2])

\* get_guest_session_data when the Django session holds no "guest_game"
new_guest_game ==
    [guest             |-> TRUE,
     is_active         |-> FALSE,
     status            |-> "new",
     clues_remaining   |-> get_clues_for_level(1),
     level_number      |-> 1,
     board_state_empty |-> TRUE,
     has_score         |-> FALSE]

\* the session StartGameView creates
started_session(guest) ==
    [guest             |-> guest,
     is_active         |-> TRUE,
     status            |-> "active",
     clues_remaining   |-> get_clues_for_level(1),
     level_number      |-> 1,
     board_state_empty |-> guest,
     has_score         |-> FALSE]

\* the sessions of the player with their boards, the one stored last first
AllRows == <<[session |-> session, board |-> board]>> \o others

\* the rows but the i-th; all of them when i = 0
Without(rows, i) ==
    [k \in 1 .. (IF i = 0 THEN Len(rows) ELSE Len(rows) - 1) |->
        IF i = 0 \/ k < i THEN rows[k] ELSE rows[k + 1]]

\* QuerySet.first(): the position of the first row of the set, 0 for None
first_row(rows, positions) ==
    IF positions = {}
    THEN 0
    ELSE CHOOSE i \in positions : \A j \in positions : i <= j

\* GameSession.get_active_session(player); the guest_game when is_active
get_active_session(rows) ==
    first_row(rows, {i \in 1 .. Len(rows) :
                    LET s == rows[i].session
                    IN  IF s.guest
                        THEN s.is_active
                        ELSE s.is_active /\ s.status = "active"})

\* the session NextLevelView advances
won_session(rows) ==
    first_row(rows, {i \in 1 .. Len(rows) : rows[i].session.status = "won"})

\* the board after AbandonGameView or end_session(False) wrote to it
Abandoned(brd) == [brd EXCEPT !.game_over = TRUE, !.won = FALSE]

\* GameActionView.post reaches the engine call on the i-th row
action_accepted(i, row, col) ==
    /\ i # 0
    /\ ~AllRows[i].board.game_over
    /\ \/ AllRows[i].session.guest
       \/ row < AllRows[i].board.rows /\ col < AllRows[i].board.cols

\* mine_count passed to the engine
session_mine_count(s) ==
    <<level_mine_count(settings, s.guest, s.level_number)>>

\* Score.create_from_session(s) violates the unique constraint of
\* Score.session
create_from_session_raises(s) == s.has_score

\* GameActionView.post is left by that exception before anything is stored
action_stored(s, brd) ==
    ~(~s.guest /\ brd.game_over /\ ~brd.won /\ create_from_session_raises(s))

\* the session GameActionView.post saves with the board brd
session_after(s, brd, clue_used) ==
    LET saved == [s EXCEPT
                     !.clues_remaining   = IF clue_used THEN @ - 1 ELSE @,
                     !.board_state_empty = FALSE]
    IN  IF brd.game_over
        THEN [saved EXCEPT
                 !.status    = IF brd.won THEN "won" ELSE "lost",
                 !.is_active = IF s.guest
                               THEN guest_is_active(@, brd)
                               ELSE session_is_active(@, brd),
                 !.has_score = IF s.guest THEN @ ELSE @ \/ ~brd.won]
        ELSE saved

\* the i-th row is stored as s with the board brd
Store(i, s, brd) ==
    /\ session' = s
    /\ board' = brd
    /\ others' = Without(AllRows, i)

SessionInit ==
    /\ settings \in SettingsArgs
    /\ session \in {new_guest_game, started_session(FALSE)}
    /\ board = level_board(settings, 1)
    /\ others = <<>>
    /\ raised = "none"
    /\ score_call = None
    /\ fill = None
    /\ level_call = None

\* row and col pass the serializer (min_value = 0); one index past the grid
PostReveal ==
    LET i == get_active_session(AllRows)
    IN  \E row \in 0 .. MaxSide, col \in 0 .. MaxSide :
          /\ action_accepted(i, row, col)
          /\ row <= AllRows[i].board.rows
          /\ col <= AllRows[i].board.cols
          /\ LET s          == AllRows[i].session
                 brd        == AllRows[i].board
                 mine_count == session_mine_count(s)
             IN  /\ ~reveal_cell_raises(brd, row, col, mine_count)
                 /\ \E mine_positions \in
                          reveal_cell_samples(brd, row, col, mine_count) :
                      LET after == reveal_cell(brd, row, col, mine_count,
                                               mine_positions)
                      IN  /\ action_stored(s, after)
                          /\ Store(i, session_after(s, after, FALSE), after)
                 /\ UNCHANGED <<raised, score_call, settings, fill, level_call>>

PostFlag ==
    LET i == get_active_session(AllRows)
    IN  \E row \in 0 .. MaxSide, col \in 0 .. MaxSide :
          /\ action_accepted(i, row, col)
          /\ row <= AllRows[i].board.rows
          /\ col <= AllRows[i].board.cols
          /\ \/ PlayerFlags(AllRows[i].board) < MaxSessionFlags
             \/ BagIn(<<row, col>>, AllRows[i].board.flagged)
          /\ LET s     == AllRows[i].session
                 after == toggle_flag(AllRows[i].board, row, col)
             IN  /\ action_stored(s, after)
                 /\ Store(i, session_after(s, after, FALSE), after)
                 /\ UNCHANGED <<raised, score_call, settings, fill, level_call>>

PostChord ==
    LET i == get_active_session(AllRows)
    IN  \E row \in 0 .. MaxSide, col \in 0 .. MaxSide :
          /\ action_accepted(i, row, col)
          /\ row <= AllRows[i].board.rows
          /\ col <= AllRows[i].board.cols
          /\ LET s     == AllRows[i].session
                 after == chord_reveal(AllRows[i].board, row, col)
             IN  /\ action_stored(s, after)
                 /\ Store(i, session_after(s, after, FALSE), after)
                 /\ UNCHANGED <<raised, score_call, settings, fill, level_call>>

PostClue ==
    LET i == get_active_session(AllRows)
    IN  \E row \in 0 .. MaxSide, col \in 0 .. MaxSide :
          /\ action_accepted(i, row, col)
          /\ row <= AllRows[i].board.rows
          /\ col <= AllRows[i].board.cols
          /\ AllRows[i].session.clues_remaining > 0
          /\ LET s          == AllRows[i].session
                 brd        == AllRows[i].board
                 mine_count == session_mine_count(s)
             IN  /\ ~apply_clue_raises(brd, row, col, mine_count)
                 /\ \E mine_positions \in
                          reveal_cell_samples(brd, row, col, mine_count) :
                      LET after == apply_clue(brd, row, col, mine_count,
                                              mine_positions)
                      IN  /\ action_stored(s, after)
                          /\ Store(i, session_after(s, after, TRUE), after)
                 /\ UNCHANGED <<raised, score_call, settings, fill, level_call>>

\* AbandonGameView.post; the row is saved before Score.create_from_session
PostAbandon ==
    LET i == get_active_session(AllRows)
    IN  /\ i # 0
        /\ LET s   == AllRows[i].session
               brd == AllRows[i].board
           IN  Store(i,
                     [s EXCEPT !.is_active = FALSE,
                               !.status    = "abandoned",
                               !.has_score = IF s.guest THEN @ ELSE TRUE],
                     IF s.guest /\ s.board_state_empty
                     THEN brd
                     ELSE Abandoned(brd))
        /\ UNCHANGED <<raised, score_call, settings, fill, level_call>>

\* GameSession.advance_to_next_level on the session s
advance_to_next_level(s) ==
    [s EXCEPT !.level_number    = @ + 1,
              !.clues_remaining = ROGUESWEEPER_CLUES_PER_LEVEL]

\* the cells of the boards of the rows
RECURSIVE board_cells(_)
board_cells(rows) ==
    IF rows = <<>>
    THEN 0
    ELSE Head(rows).board.rows * Head(rows).board.cols + board_cells(Tail(rows))

\* the levels, grids and rows explored: the board of a level next to the rows
level_explored(level_number, rows) ==
    /\ level_number <= MaxLevel
    /\ level_grid_size(settings, level_number) \in GridSizes
    /\ level_grid_size(settings, level_number)[1]
           * level_grid_size(settings, level_number)[2] + board_cells(rows)
         <= MaxPlayerCells

\* NextLevelView.post
PostNextLevel ==
    LET i == won_session(AllRows)
    IN  /\ i # 0
        /\ level_explored(AllRows[i].session.level_number + 1,
                          Without(AllRows, i))
        /\ LET s == AllRows[i].session
           IN  Store(i,
                     IF s.guest
                     THEN [s EXCEPT
                              !.level_number      = @ + 1,
                              !.clues_remaining   =
                                  get_clues_for_level(s.level_number + 1),
                              !.board_state_empty = TRUE,
                              !.is_active         = TRUE,
                              !.status            = "active"]
                     ELSE [advance_to_next_level(s) EXCEPT
                              !.status    = "active",
                              !.is_active = TRUE],
                     level_board(settings, s.level_number + 1))
        /\ UNCHANGED <<raised, score_call, settings, fill, level_call>>

\* StartGameView.post; the rows of a player stay within MaxRows and
\* MaxPlayerCells
PostStart ==
    \E force_new \in BOOLEAN :
        LET i == get_active_session(AllRows)
        IN  /\ ~(i # 0 /\ ~force_new)
            /\ session' = started_session(session.guest)
            /\ board' = level_board(settings, 1)
            /\ IF session.guest
               THEN others' = others
               ELSE /\ Len(AllRows) < MaxRows
                    /\ level_explored(1, AllRows)
                    /\ others' =
                         IF i = 0
                         THEN AllRows
                         ELSE <<[session |-> [AllRows[i].session EXCEPT
                                                 !.status    = "abandoned",
                                                 !.is_active = FALSE],
                                 board   |-> AllRows[i].board]>>
                                  \o Without(AllRows, i)
            /\ UNCHANGED <<raised, score_call, settings, fill, level_call>>

\* UpdateTimeView.post of a registered player saves the active row
PostUpdateTime ==
    LET i == get_active_session(AllRows)
    IN  /\ i # 0
        /\ ~AllRows[i].session.guest
        /\ Store(i, AllRows[i].session, AllRows[i].board)
        /\ UNCHANGED <<raised, score_call, settings, fill, level_call>>

\* LogoutView of a guest: logout(request) flushes the Django session, which
\* get_guest_session_data fills again
Logout ==
    /\ session.guest
    /\ session' = new_guest_game
    /\ board' = level_board(settings, 1)
    /\ UNCHANGED <<raised, score_call, others, settings, fill, level_call>>

\* GameSession.end_session(won) on a row, a method no handler calls
EndSession ==
    \E i \in 1 .. Len(AllRows), won \in BOOLEAN :
        /\ ~AllRows[i].session.guest
        /\ Store(i,
                 [AllRows[i].session EXCEPT
                     !.is_active = FALSE,
                     !.status    = IF won THEN "won" ELSE "lost"],
                 [AllRows[i].board EXCEPT !.game_over = TRUE, !.won = won])
        /\ UNCHANGED <<raised, score_call, settings, fill, level_call>>

\* GameSession.use_clue() on a row, a method no handler calls
UseClue ==
    \E i \in 1 .. Len(AllRows) :
        /\ ~AllRows[i].session.guest
        /\ AllRows[i].session.clues_remaining > 0
        /\ Store(i,
                 [AllRows[i].session EXCEPT !.clues_remaining = @ - 1],
                 AllRows[i].board)
        /\ UNCHANGED <<raised, score_call, settings, fill, level_call>>

\* GameSession.advance_to_next_level() on a row, outside NextLevelView
AdvanceToNextLevel ==
    \E i \in 1 .. Len(AllRows) :
        /\ ~AllRows[i].session.guest
        /\ level_explored(AllRows[i].session.level_number + 1,
                          Without(AllRows, i))
        /\ Store(i,
                 advance_to_next_level(AllRows[i].session),
                 level_board(settings, AllRows[i].session.level_number + 1))
        /\ UNCHANGED <<raised, score_call, settings, fill, level_call>>

SessionNext ==
    \/ PostReveal
    \/ PostFlag
    \/ PostChord
    \/ PostClue
    \/ PostAbandon
    \/ PostNextLevel
    \/ PostStart
    \/ PostUpdateTime
    \/ Logout
    \/ EndSession
    \/ UseClue
    \/ AdvanceToNextLevel

SessionSpec == SessionInit /\ [][SessionNext]_vars

(***************************************************************************)
(* The runs of GameEngine._flood_fill_reveal, one iteration of its         *)
(* "while stack" loop per step.  A run starts from a board as               *)
(* initialize_board builds it, a set of flagged cells and a start cell;    *)
(* "added" counts the calls of new_revealed.add for each cell.              *)
(***************************************************************************)
FloodInit ==
    /\ board = _get_default_board_state(1, 1)
    /\ raised = "none"
    /\ score_call = None
    /\ session = None
    /\ others = <<>>
    /\ settings = None
    /\ level_call = None
    /\ \E size \in GridSizes, mine_count \in 0 .. MaxMines :
          \E safe_start \in (0 .. size[1] - 1) \X (0 .. size[2] - 1) :
              /\ ~initialize_board_raises(size[1], size[2], mine_count, safe_start)
              /\ \E mine_positions \in
                        random_sample(all_cells(size[1], size[2], safe_start),
                                      mine_count) :
                    \E flagged \in SUBSET ((0 .. size[1] - 1) \X (0 .. size[2] - 1)),
                       start \in (0 .. size[1] - 1) \X (0 .. size[2] - 1) :
                        /\ Cardinality(flagged) <= MaxFloodFlags
                        /\ fill = [brd          |-> initialize_board(
                                                       size[1], size[2], mine_count,
                                                       safe_start, mine_positions),
                                   flagged      |-> flagged,
                                   revealed     |-> {},
                                   start        |-> start,
                                   stack        |-> <<start>>,
                                   new_revealed |-> {},
                                   added        |-> EmptyBag]

flood_iteration_revisits(f) ==
    LET rc   == f.stack[Len(f.stack)]
        rest == SubSeq(f.stack, 1, Len(f.stack) - 1)
    IN  IF rc \in f.flagged \/ rc \in f.brd.mines
        THEN [f EXCEPT !.stack = rest]
        ELSE
          LET now == f.new_revealed \cup {rc}
              adjacent_count ==
                  DictGet(f.brd.adjacent_counts, CoordKey(rc[1], rc[2]), 0)
              pushed ==
                  IF adjacent_count = 0
                  THEN SelectSeq(Neighbors(rc[1], rc[2], f.brd.rows, f.brd.cols),
                                 LAMBDA q : q \notin now)
                  ELSE <<>>
          IN  [f EXCEPT !.stack = rest \o pushed,
                        !.new_revealed = now,
                        !.added = @ (+) SetToBag({rc})]

\* one iteration of the "while stack" loop, from stack.pop() on
flood_iteration(f) ==
    LET rc   == f.stack[Len(f.stack)]
        rest == SubSeq(f.stack, 1, Len(f.stack) - 1)
    IN  IF rc \in f.new_revealed \/ rc \in f.flagged \/ rc \in f.brd.mines
        THEN [f EXCEPT !.stack = rest]
        ELSE
          LET now == f.new_revealed \cup {rc}
              adjacent_count ==
                  DictGet(f.brd.adjacent_counts, CoordKey(rc[1], rc[2]), 0)
              pushed ==
                  IF adjacent_count = 0
                  THEN SelectSeq(Neighbors(rc[1], rc[2], f.brd.rows, f.brd.cols),
                                 LAMBDA q : q \notin now)
                  ELSE <<>>
          IN  [f EXCEPT !.stack = rest \o pushed,
                        !.new_revealed = now,
                        !.added = @ (+) SetToBag({rc})]

FloodIteration ==
    /\ fill.stack # <<>>
    /\ fill' = flood_iteration(fill)
    /\ UNCHANGED <<board, raised, score_call, session, others, settings, level_call>>

FloodNext == FloodIteration

FloodSpec == FloodInit /\ [][FloodNext]_vars /\ WF_vars(FloodNext)

(***************************************************************************)
(* Vocabulary of the properties, stated without the engine's helpers.      *)
(***************************************************************************)
Abs(n) == IF n < 0 THEN -n ELSE n

Grid(brd) == {<<r, c>> : r \in 0 .. brd.rows - 1, c \in 0 .. brd.cols - 1}

\* q is p or one of the 8 cells around p
Touching(p, q) == Abs(p[1] - q[1]) <= 1 /\ Abs(p[2] - q[2]) <= 1

SafeZone(brd, p) == {q \in Grid(brd) : Touching(p, q)}

Flagged(brd) == BagToSet(brd.flagged)

Immune(brd) == BagToSet(brd.immune_flags)

Lost(brd) == brd.game_over /\ ~brd.won

RevealedCountIsSafeCount(brd) ==
    Cardinality(brd.revealed) = brd.rows * brd.cols - Cardinality(brd.mines)

\* the calls that take the first-click branch of reveal_cell: an in-bounds
\* cell and a mine count, one negative count included, on a board not
\* initialized yet
FirstClicks(brd) ==
    {a \in (0 .. brd.rows - 1) \X (0 .. brd.cols - 1) \X (-1 .. MaxMines) :
        ~brd.game_over /\ ~brd.initialized}

(***************************************************************************)
(* C1. While game_over is false, render_for_frontend with show_all = False *)
(* produces no cell whose state is "mine" or "mine_hit".                    *)
(***************************************************************************)
C1_AntiCheatProjection ==
    ~board.game_over =>
        LET view == render_for_frontend(board, FALSE)
        IN  \A r1 \in 1 .. board.rows, c1 \in 1 .. board.cols :
                view.cells[r1][c1].kind \notin {"mine", "mine_hit"}

\* an active board with mines, some hidden, and a revealed numbered cell
C1_Witness ==
    /\ ~board.game_over
    /\ board.revealed # {}
    /\ \E m \in board.mines :
           render_for_frontend(board, FALSE).cells[m[1] + 1][m[2] + 1].kind = "hidden"
    /\ \E p \in board.revealed :
           render_for_frontend(board, FALSE).cells[p[1] + 1][p[2] + 1]
               = CellNumber(1)

(***************************************************************************)
(* C2. Safe start: whatever the grid, the in-bounds safe cell, the         *)
(* accepted mine count and the random choice, the mines placed by          *)
(* initialize_board, called directly or by the first reveal, contain       *)
(* neither the safe cell nor any of its neighbours.  Hence every           *)
(* initialized board has a cell whose whole neighbourhood is mine-free.    *)
(***************************************************************************)
C2_SafeStart ==
    [](/\ \A a \in FirstClicks(board) :
            LET safe_start == <<a[1], a[2]>>
            IN  ~initialize_board_raises(board.rows, board.cols, a[3], safe_start) =>
                  \A sample \in random_sample(
                                   all_cells(board.rows, board.cols, safe_start), a[3]) :
                    /\ \A m \in initialize_board(board.rows, board.cols, a[3],
                                                 safe_start, sample).mines :
                           ~Touching(safe_start, m)
                    /\ \A m \in reveal_cell(board, a[1], a[2], <<a[3]>>, sample).mines :
                           ~Touching(safe_start, m)
       /\ board.initialized =>
            \E p \in Grid(board) : SafeZone(board, p) \cap board.mines = {})

\* an initialized board holding as many mines as the bound allows
C2_Witness ==
    /\ board.initialized
    /\ Cardinality(board.mines) = MaxMines
    /\ \E p \in board.revealed : SafeZone(board, p) \subseteq board.revealed

C4_MinesHiddenUnlessLost ==
    board.mines \cap board.revealed # {} => Lost(board)

\* a lost board: every mine disclosed
C4_Witness ==
    /\ Lost(board)
    /\ board.mines # {}
    /\ board.mines \subseteq board.revealed

(***************************************************************************)
(* C5 as stated: no coordinate is in both flagged and revealed, in any     *)
(* state, lost states included.                                            *)
(***************************************************************************)
C5_FlaggedNeverRevealed ==
    Flagged(board) \cap board.revealed = {}

(***************************************************************************)
(* C5 amended: a coordinate is in both flagged and revealed only in a lost *)
(* state, and only if it is a mine (the losing reveal discloses every      *)
(* mine, flagged or not).                                                  *)
(***************************************************************************)
C5_FlaggedRevealedOnlyLostMines ==
    \A p \in Flagged(board) \cap board.revealed :
        Lost(board) /\ p \in board.mines

\* a lost board with a disclosed flagged mine and a flagged safe cell
C5_Witness ==
    /\ Lost(board)
    /\ \E p \in Flagged(board) : p \in board.mines /\ p \in board.revealed
    /\ \E p \in Flagged(board) : p \notin board.mines /\ p \notin board.revealed

(***************************************************************************)
(* C6. Every coordinate in immune_flags is also in flagged.                *)
(***************************************************************************)
C6_ImmuneSubsetFlagged ==
    Immune(board) \subseteq Flagged(board)

\* a board with an immune flag next to a player's flag
C6_Witness ==
    /\ Immune(board) # {}
    /\ Flagged(board) \ Immune(board) # {}

(***************************************************************************)
(* C7. Once a coordinate is in immune_flags, every step keeps it in        *)
(* immune_flags and in flagged.                                            *)
(***************************************************************************)
C7_ImmunePermanent ==
    [][\A p \in Immune(board) : p \in Immune(board') /\ p \in Flagged(board')]_vars

\* an immune flag on a board that was played on: revealed cells and a lost game
C7_Witness ==
    /\ Immune(board) # {}
    /\ Lost(board)
    /\ Immune(board) \subseteq Flagged(board)

(***************************************************************************)
(* C8 as stated: in every state, lost states included, won is true iff     *)
(* |revealed| = rows*cols - |mines|.                                       *)
(***************************************************************************)
C8_WonIffCount ==
    board.won <=> RevealedCountIsSafeCount(board)

(***************************************************************************)
(* C8 amended: in every state that is not lost, won is true iff            *)
(* |revealed| = rows*cols - |mines|.  (In a lost state the disclosed mines *)
(* are counted in revealed, and the counts can agree with won false.)      *)
(***************************************************************************)
C8_WonIffCountUnlessLost ==
    ~Lost(board) => (board.won <=> RevealedCountIsSafeCount(board))

\* a won board with mines
C8_Witness ==
    /\ board.won
    /\ board.mines # {}
    /\ RevealedCountIsSafeCount(board)

(***************************************************************************)
(* C9. In every initialized state, won is true iff revealed is exactly the *)
(* set of the non-mine cells.                                              *)
(***************************************************************************)
C9_WonIffFullCoverage ==
    board.initialized => (board.won <=> board.revealed = Grid(board) \ board.mines)

\* a board won with a mine under an immune flag
C9_Witness ==
    /\ board.won
    /\ Immune(board) # {}
    /\ board.revealed = Grid(board) \ board.mines

(***************************************************************************)
(* C10. Once game_over is true no call changes the board: game_over stays  *)
(* true and won keeps its value.                                           *)
(***************************************************************************)
C10_TerminalIsFinal ==
    [][board.game_over => board' = board]_vars

\* a lost board with safe cells still unrevealed and a player's flag
C10_Witness ==
    /\ Lost(board)
    /\ Grid(board) \ (board.revealed \cup board.mines) # {}
    /\ Flagged(board) \ Immune(board) # {}

(***************************************************************************)
(* Further vocabulary of the properties.                                   *)
(***************************************************************************)
\* the in-bounds cells around p
Around(brd, p) == SafeZone(brd, p) \ {p}

\* the number written on a safe cell
MinesAround(brd, p) == Cardinality(Around(brd, p) \cap brd.mines)

Active(brd) == brd.initialized /\ ~brd.game_over

\* the cells a reveal may target on an active board
Covered(brd) == Grid(brd) \ (brd.revealed \cup Flagged(brd))

\* reveal_cell on an initialized board, as the views call it
RevealAt(brd, p) == reveal_cell(brd, p[1], p[2], <<MaxMines>>, NoSample)

\* apply_clue on an initialized board, as the views call it
ClueAt(brd, p) == apply_clue(brd, p[1], p[2], <<MaxMines>>, NoSample)

\* every (row, col) argument explored
CoordArgs(brd) == RowArgs(brd) \X ColArgs(brd)

(***************************************************************************)
(* C11 as stated: in every state, initialized or not, reveal returns the   *)
(* board unchanged when game_over holds, the coordinates are out of        *)
(* bounds, or the target cell is flagged or already revealed.              *)
(***************************************************************************)
C11_RevealNoOp ==
    \A a \in CoordArgs(board), mine_count \in MineCountArgs :
        (\/ board.game_over
         \/ a \notin Grid(board)
         \/ a \in Flagged(board)
         \/ a \in board.revealed)
        => /\ ~reveal_cell_raises(board, a[1], a[2], mine_count)
           /\ \A sample \in reveal_cell_samples(board, a[1], a[2], mine_count) :
                  reveal_cell(board, a[1], a[2], mine_count, sample) = board

(***************************************************************************)
(* C12. Revealing an unflagged, unrevealed mine of an active initialized   *)
(* board gives game_over = True, won = False and every mine in revealed.   *)
(***************************************************************************)
C12_MineHitLoses ==
    Active(board) =>
        \A m \in board.mines \cap Covered(board) :
            LET after == RevealAt(board, m)
            IN  /\ after.game_over
                /\ ~after.won
                /\ board.mines \subseteq after.revealed

\* a lost board with the most mines, all disclosed, one of them under a flag
C12_Witness ==
    /\ Lost(board)
    /\ Cardinality(board.mines) = MaxMines
    /\ board.mines \subseteq board.revealed
    /\ Flagged(board) \cap board.mines # {}

(***************************************************************************)
(* C13 as stated: revealing an unrevealed, unflagged cell whose adjacent   *)
(* count is 0 adds to revealed exactly its 8-connected region of           *)
(* zero-count cells plus the cells bordering that region, whatever flags   *)
(* are present.                                                            *)
(***************************************************************************)
RECURSIVE ZeroRegion(_, _)
\* the 8-connected region of zero-count cells that contains the cells of S
ZeroRegion(brd, S) ==
    LET more == {q \in Grid(brd) \ brd.mines :
                    /\ MinesAround(brd, q) = 0
                    /\ \E z \in S : Touching(z, q)}
    IN  IF more \subseteq S THEN S ELSE ZeroRegion(brd, S \cup more)

\* the region with the cells that border it
ZeroRegionWithBorder(brd, p) ==
    UNION {SafeZone(brd, z) : z \in ZeroRegion(brd, {p})}

C13_FloodFillWholeRegion ==
    Active(board) =>
        \A p \in Covered(board) \ board.mines :
            MinesAround(board, p) = 0 =>
                RevealAt(board, p).revealed
                    = board.revealed \cup ZeroRegionWithBorder(board, p)

(***************************************************************************)
(* C13 amended: revealing an unrevealed, unflagged cell whose adjacent     *)
(* count is 0 adds to revealed exactly the cells reached from it by steps  *)
(* from a newly revealed zero-count cell to a neighbour that is neither    *)
(* flagged nor already revealed; flagged cells stay unrevealed and the     *)
(* traversal does not pass through them.                                   *)
(***************************************************************************)
RECURSIVE FloodReach(_, _)
FloodReach(brd, S) ==
    LET more == {q \in Covered(brd) :
                    \E z \in S : MinesAround(brd, z) = 0 /\ Touching(z, q)}
    IN  IF more \subseteq S THEN S ELSE FloodReach(brd, S \cup more)

C13_FloodFillUnflaggedRegion ==
    Active(board) =>
        \A p \in Covered(board) \ board.mines :
            MinesAround(board, p) = 0 =>
                RevealAt(board, p).revealed
                    = board.revealed \cup FloodReach(board, {p})

\* an active board with an unrevealed zero-count cell p whose region holds
\* a flagged zero-count cell f, and a cell d that the flood fill from p
\* reaches by diagonal steps only: revealing p reveals d and leaves f
C13_Witness ==
    /\ Active(board)
    /\ \E p \in Covered(board) \ board.mines :
           /\ MinesAround(board, p) = 0
           /\ \E f \in Flagged(board) \cap ZeroRegion(board, {p}) :
                  f \notin RevealAt(board, p).revealed
           /\ \E d \in FloodReach(board, {p}) \ {p} :
                  /\ d \in RevealAt(board, p).revealed
                  /\ \A z \in FloodReach(board, {p}) \ {d} :
                         MinesAround(board, z) = 0 /\ Touching(z, d)
                             => z[1] # d[1] /\ z[2] # d[2]

(***************************************************************************)
(* C14. No apply_clue call causes a loss: its result is a lost board only  *)
(* when the board was lost already, and then it is the same board.         *)
(***************************************************************************)
C14_ClueNeverLoses ==
    [](\A a \in CoordArgs(board), mine_count \in MineCountArgsFor(board) :
           ~apply_clue_raises(board, a[1], a[2], mine_count) =>
               \A sample \in reveal_cell_samples(board, a[1], a[2], mine_count) :
                   LET after == apply_clue(board, a[1], a[2], mine_count, sample)
                   IN  Lost(after) => Lost(board) /\ after = board)

\* a clue found a mine and the game goes on with other mines still unmarked
C14_Witness ==
    /\ ~board.game_over
    /\ Immune(board) # {}
    /\ board.mines \ Flagged(board) # {}

(***************************************************************************)
(* C15. apply_clue on an unrevealed, unflagged mine of an active           *)
(* initialized board adds the coordinate to flagged and to immune_flags    *)
(* and changes nothing else.                                               *)
(***************************************************************************)
C15_ClueOnMineFrame ==
    Active(board) =>
        \A m \in board.mines \cap Covered(board) :
            LET after == ClueAt(board, m)
            IN  /\ Flagged(after) = Flagged(board) \cup {m}
                /\ Immune(after) = Immune(board) \cup {m}
                /\ \A q \in Grid(board) \ {m} :
                       /\ CopiesIn(q, after.flagged) = CopiesIn(q, board.flagged)
                       /\ CopiesIn(q, after.immune_flags)
                              = CopiesIn(q, board.immune_flags)
                /\ after.revealed = board.revealed
                /\ after.mines = board.mines
                /\ after.adjacent_counts = board.adjacent_counts
                /\ after.game_over = FALSE
                /\ after.won = board.won
                /\ after.rows = board.rows /\ after.cols = board.cols
                /\ after.initialized

\* an active board whose only flag is an immune flag on an unrevealed mine
C15_Witness ==
    /\ Active(board)
    /\ board.revealed # {}
    /\ PlayerFlags(board) = 0
    /\ \E m \in Immune(board) : m \in board.mines /\ m \notin board.revealed

(***************************************************************************)
(* C16 as stated: for every mine m of an active initialized board,         *)
(* apply_clue on m twice gives the same board as once, and m appears once  *)
(* in flagged and once in immune_flags.                                    *)
(***************************************************************************)
C16_ClueTwiceAlwaysImmune ==
    Active(board) =>
        \A m \in board.mines :
            LET once  == ClueAt(board, m)
                twice == ClueAt(once, m)
            IN  /\ twice = once
                /\ CopiesIn(m, once.flagged) = 1
                /\ CopiesIn(m, once.immune_flags) = 1

(***************************************************************************)
(* C16 amended: for every mine m of an active initialized board,           *)
(* apply_clue on m twice gives the same board as once, and m then appears  *)
(* once in flagged; it appears once in immune_flags unless the player had  *)
(* flagged m before, in which case apply_clue changes nothing and m is     *)
(* not in immune_flags.                                                    *)
(***************************************************************************)
C16_ClueTwiceSameAsOnce ==
    Active(board) =>
        \A m \in board.mines :
            LET once  == ClueAt(board, m)
                twice == ClueAt(once, m)
            IN  /\ twice = once
                /\ CopiesIn(m, once.flagged) = 1
                /\ IF m \in Flagged(board) \ Immune(board)
                   THEN once = board /\ CopiesIn(m, once.immune_flags) = 0
                   ELSE CopiesIn(m, once.immune_flags) = 1

\* an active board with an immune flag on one mine and a player's flag on another
C16_Witness ==
    /\ Active(board)
    /\ \E m \in board.mines \cap Immune(board) :
           CopiesIn(m, board.flagged) = 1 /\ CopiesIn(m, board.immune_flags) = 1
    /\ board.mines \cap (Flagged(board) \ Immune(board)) # {}

(***************************************************************************)
(* C17 as stated: if a revealed cell has adjacent count n >= 1 and the     *)
(* flagged cells around it are exactly its n neighbouring mines,           *)
(* chord_reveal on it reveals every other neighbour and game_over stays    *)
(* false.                                                                  *)
(***************************************************************************)
\* the revealed numbered cells whose flagged neighbours are exactly their mines
ChordReady(brd) ==
    {p \in brd.revealed \ brd.mines :
        /\ MinesAround(brd, p) >= 1
        /\ Flagged(brd) \cap Around(brd, p) = brd.mines \cap Around(brd, p)}

C17_ChordKeepsPlaying ==
    Active(board) =>
        \A p \in ChordReady(board) :
            LET after == chord_reveal(board, p[1], p[2])
            IN  /\ Around(board, p) \ board.mines \subseteq after.revealed
                /\ ~after.game_over

(***************************************************************************)
(* C17 amended: under the same condition chord_reveal reveals every other  *)
(* neighbour and never loses: game_over stays false unless the chord       *)
(* uncovers the last safe cells, and then the game is won.                 *)
(***************************************************************************)
C17_ChordNeverLoses ==
    Active(board) =>
        \A p \in ChordReady(board) :
            LET after == chord_reveal(board, p[1], p[2])
            IN  /\ Around(board, p) \ board.mines \subseteq after.revealed
                /\ after.revealed \cap board.mines = {}
                /\ ~Lost(after)
                /\ after.game_over <=> after.revealed = Grid(board) \ board.mines

\* an active board where such a chord has neighbours to reveal
C17_Witness ==
    /\ Active(board)
    /\ \E p \in ChordReady(board) :
           Around(board, p) \cap (Covered(board) \ board.mines) # {}

(***************************************************************************)
(* C18. chord_reveal returns the board unchanged when game_over holds,     *)
(* the coordinates are out of bounds, the target is not revealed, its      *)
(* adjacent count is 0, or the number of flagged neighbours differs from   *)
(* its adjacent count.                                                     *)
(***************************************************************************)
C18_ChordNoOp ==
    \A a \in CoordArgs(board) :
        (\/ board.game_over
         \/ a \notin Grid(board)
         \/ a \notin board.revealed
         \/ MinesAround(board, a) = 0
         \/ Cardinality(Flagged(board) \cap Around(board, a)) # MinesAround(board, a))
        => chord_reveal(board, a[1], a[2]) = board

\* a revealed numbered cell with more flags around it than its number and
\* a neighbour a chord could reveal
C18_Witness ==
    /\ Active(board)
    /\ \E p \in board.revealed :
           /\ MinesAround(board, p) >= 1
           /\ Cardinality(Flagged(board) \cap Around(board, p)) > MinesAround(board, p)
           /\ Around(board, p) \cap Covered(board) # {}

(***************************************************************************)
(* C19. toggle_flag returns the board unchanged when game_over holds, the  *)
(* coordinates are out of bounds, the cell is revealed or the cell is in   *)
(* immune_flags; otherwise it flips the membership of exactly that         *)
(* coordinate in flagged and leaves every other field as it is.            *)
(***************************************************************************)
C19_ToggleFlagFrame ==
    \A a \in CoordArgs(board) :
        LET after == toggle_flag(board, a[1], a[2])
        IN  IF \/ board.game_over
               \/ a \notin Grid(board)
               \/ a \in board.revealed
               \/ a \in Immune(board)
            THEN after = board
            ELSE /\ ~((a \in Flagged(after)) <=> (a \in Flagged(board)))
                 /\ Flagged(after) \ {a} = Flagged(board) \ {a}
                 /\ [after EXCEPT !.flagged = board.flagged] = board

\* an active board carrying as many player flags as the bound allows
C19_Witness ==
    /\ Active(board)
    /\ PlayerFlags(board) = MaxFlags

(***************************************************************************)
(* C20. Applying toggle_flag twice to the same coordinate restores the     *)
(* original flags.                                                         *)
(***************************************************************************)
C20_ToggleTwice ==
    \A a \in CoordArgs(board) :
        toggle_flag(toggle_flag(board, a[1], a[2]), a[1], a[2]).flagged
            = board.flagged

\* flags placed on a board that is not initialized yet
C20_Witness ==
    /\ ~board.initialized
    /\ PlayerFlags(board) >= 1

(***************************************************************************)
(* C21. calculate_score(level, cells_revealed, time_elapsed, clues_used,   *)
(* won) is 100*level + 10*cells_revealed + the seconds left of 300 (none   *)
(* once 300 have passed) - 50*clues_used + 500*level when won, and 0 when   *)
(* that sum is negative; it is never negative, and                         *)
(* calculate_score(1, 50, 120, 0, True) = 1280.                            *)
(***************************************************************************)
\* the call has returned
Scored == score_call.result # None

\* the example of the docstring: calculate_score(1, 50, 120, 0, True)
ScoreExample ==
    /\ score_call.level = 1
    /\ score_call.cells_revealed = 50
    /\ score_call.time_elapsed = 120
    /\ score_call.clues_used = 0
    /\ score_call.won

C21_ScoreFormula ==
    Scored =>
        LET seconds_left == IF score_call.time_elapsed < 300
                            THEN 300 - score_call.time_elapsed ELSE 0
            bonus == IF score_call.won THEN 500 * score_call.level ELSE 0
            sum   == 100 * score_call.level + 10 * score_call.cells_revealed
                        + seconds_left - 50 * score_call.clues_used + bonus
        IN  /\ score_call.result[1] = (IF sum < 0 THEN 0 ELSE sum)
            /\ score_call.result[1] >= 0
            /\ ScoreExample => score_call.result[1] = 1280

\* the example has been scored 1280
C21_Witness ==
    /\ Scored
    /\ ScoreExample
    /\ score_call.result = <<1280>>

(***************************************************************************)
(* The two errors of the engine's own tests, both a ValueError.             *)
(***************************************************************************)
MissingConfiguration ==
    "ValueError: mine_count must be provided for uninitialized board"

InvalidConfiguration == "ValueError: Cannot place mines"

(***************************************************************************)
(* C22 as stated in the docstring of calculate_score:                      *)
(* calculate_score(1, 50, 120, 0, True) returns 1230.                      *)
(***************************************************************************)
C22_DocstringExample ==
    Scored /\ ScoreExample => score_call.result[1] = 1230

(***************************************************************************)
(* C23. reveal_cell and apply_clue, called on a board that is neither      *)
(* initialized nor game over, with in-bounds coordinates and without a     *)
(* mine count, raise the ValueError of the missing mine count; the step    *)
(* that raises it leaves every field of the board as it was, uninitialized *)
(* included.                                                               *)
(***************************************************************************)
C23_MissingMineCount ==
    /\ [](~board.initialized /\ ~board.game_over =>
            \A a \in Grid(board) :
                /\ reveal_cell_raises(board, a[1], a[2], None)
                /\ apply_clue_raises(board, a[1], a[2], None)
                /\ reveal_cell_error(board, a[1], a[2], None) = MissingConfiguration)
    /\ [][raised' = MissingConfiguration =>
              /\ board' = board
              /\ ~board.initialized /\ ~board'.initialized]_vars

\* the error was raised on a board that carries the player's flags
C23_Witness ==
    /\ raised = MissingConfiguration
    /\ ~board.initialized
    /\ PlayerFlags(board) >= 1

(***************************************************************************)
(* C24. When mine_count > rows*cols - |safe cell and its neighbours|,      *)
(* initialize_board raises the ValueError of the mine count and so do the  *)
(* first reveal_cell and the first apply_clue; the step that raises it     *)
(* leaves the board unchanged and uninitialized, and from the state it     *)
(* leaves every reveal with an accepted mine count initializes the board   *)
(* with that many mines.                                                   *)
(***************************************************************************)
\* the mine counts initialize_board accepts for a first click on p
AcceptedMineCounts(brd, p) ==
    {n \in 0 .. MaxMines :
        n <= brd.rows * brd.cols - Cardinality(SafeZone(brd, p))}

C24_TooManyMines ==
    /\ [](~board.initialized /\ ~board.game_over =>
            \A p \in Grid(board) :
                \A n \in (0 .. MaxMines) \ AcceptedMineCounts(board, p) :
                    /\ initialize_board_raises(board.rows, board.cols, n, p)
                    /\ reveal_cell_raises(board, p[1], p[2], <<n>>)
                    /\ apply_clue_raises(board, p[1], p[2], <<n>>)
                    /\ reveal_cell_error(board, p[1], p[2], <<n>>)
                           = InvalidConfiguration)
    /\ [](raised = InvalidConfiguration =>
            \A p \in Grid(board) : \A n \in AcceptedMineCounts(board, p) :
                /\ ~reveal_cell_raises(board, p[1], p[2], <<n>>)
                /\ \A sample \in reveal_cell_samples(board, p[1], p[2], <<n>>) :
                       LET after == reveal_cell(board, p[1], p[2], <<n>>, sample)
                       IN  after.initialized /\ Cardinality(after.mines) = n)
    /\ [][raised' = InvalidConfiguration =>
              /\ board' = board
              /\ board'.mines = {}
              /\ ~board'.initialized]_vars

\* the error was raised on a 3 x 3 board, where a click in the middle
\* leaves no cell for a mine and a click in a corner leaves five
C24_Witness ==
    /\ raised = InvalidConfiguration
    /\ ~board.initialized
    /\ board.mines = {}
    /\ board.rows = 3 /\ board.cols = 3

(***************************************************************************)
(* C25. No operation raises for out-of-bounds coordinates or on a board    *)
(* whose game is over: whether the board is initialized or not and         *)
(* whether a mine count is given or not, reveal_cell, toggle_flag,         *)
(* apply_clue and chord_reveal return the board unchanged.  The boards     *)
(* whose game is over include those AbandonGameView closed, which may be   *)
(* uninitialized.                                                          *)
(***************************************************************************)
\* a call with and a call without a mine count
WithOrWithoutMineCount == {None, <<MaxMines>>}

C25_NoErrorOutOfBoundsOrTerminal ==
    \A brd \in {board, Abandoned(board)} :
        \A a \in CoordArgs(brd) :
            (brd.game_over \/ a \notin Grid(brd)) =>
                /\ \A mine_count \in WithOrWithoutMineCount :
                       /\ ~reveal_cell_raises(brd, a[1], a[2], mine_count)
                       /\ ~apply_clue_raises(brd, a[1], a[2], mine_count)
                       /\ reveal_cell(brd, a[1], a[2], mine_count, NoSample) = brd
                       /\ apply_clue(brd, a[1], a[2], mine_count, NoSample) = brd
                /\ toggle_flag(brd, a[1], a[2]) = brd
                /\ chord_reveal(brd, a[1], a[2]) = brd

\* a won board that still carries a flag of the player, and a call on it
\* that raised nothing
C25_Witness ==
    /\ board.game_over
    /\ board.won
    /\ PlayerFlags(board) >= 1
    /\ raised = "none"

(***************************************************************************)
(* C26. apply_clue has exactly the outcomes of reveal_cell with the same   *)
(* arguments on every uninitialized board (the same error or, for each     *)
(* random choice, the same board), and on an active initialized board      *)
(* when the target is an unrevealed, unflagged safe cell.  (Every          *)
(* uninitialized board is met in a state where nothing was raised.)        *)
(***************************************************************************)
C26_ClueIsReveal ==
    /\ ~board.initialized /\ raised = "none" =>
          \A a \in CoordArgs(board), mine_count \in MineCountArgs :
              /\ apply_clue_raises(board, a[1], a[2], mine_count)
                     <=> reveal_cell_raises(board, a[1], a[2], mine_count)
              /\ ~reveal_cell_raises(board, a[1], a[2], mine_count) =>
                     \A sample \in reveal_cell_samples(board, a[1], a[2], mine_count) :
                         apply_clue(board, a[1], a[2], mine_count, sample)
                             = reveal_cell(board, a[1], a[2], mine_count, sample)
    /\ Active(board) =>
          \A p \in Covered(board) \ board.mines :
              ClueAt(board, p) = RevealAt(board, p)

\* an active board on which a safe cell away from the mines is still
\* covered: a clue on it floods as a reveal does
C26_Witness ==
    /\ Active(board)
    /\ board.revealed # {}
    /\ \E p \in Covered(board) \ board.mines : MinesAround(board, p) = 0

(***************************************************************************)
(* C27 as stated in the docstring of render_for_frontend: in a lost state  *)
(* the view shows "mine_hit" only for the mine that was clicked and "mine" *)
(* for every other mine.  Hence one mine is shown "mine_hit" and all the   *)
(* others are shown "mine".                                                *)
(***************************************************************************)
\* the state of the cell p in the view sent to the client
Shown(brd, p) == render_for_frontend(brd, FALSE).cells[p[1] + 1][p[2] + 1]

C27_OnlyClickedMineIsMineHit ==
    Lost(board) =>
        \E clicked \in board.mines :
            /\ Shown(board, clicked).kind = "mine_hit"
            /\ \A m \in board.mines \ {clicked} : Shown(board, m).kind = "mine"

(***************************************************************************)
(* C28 as stated: chord_reveal, when it proceeds, gives the board obtained *)
(* by calling reveal_cell on the neighbours of the target that were        *)
(* neither flagged nor revealed before the chord, one at a time in the     *)
(* order of the rows and, within a row, of the columns, and stopping after *)
(* the first call that sets game_over; the neighbours after that point are *)
(* not revealed by the chord.                                              *)
(***************************************************************************)
RECURSIVE InGridOrder(_)
\* the cells of S from the top row down and from left to right in a row
InGridOrder(S) ==
    IF S = {} THEN <<>>
    ELSE LET first == CHOOSE p \in S :
                          \A q \in S : p[1] < q[1] \/ (p[1] = q[1] /\ p[2] <= q[2])
         IN  <<first>> \o InGridOrder(S \ {first})

RECURSIVE RevealOneAtATime(_, _)
\* reveal_cell on each cell of the sequence until one sets game_over
RevealOneAtATime(brd, cells) ==
    IF cells = <<>> THEN brd
    ELSE LET after == RevealAt(brd, Head(cells))
         IN  IF after.game_over THEN after
             ELSE RevealOneAtATime(after, Tail(cells))

\* the revealed numbered cells with as many flags around them as their number
ChordProceeds(brd) ==
    {p \in brd.revealed \ brd.mines :
        /\ MinesAround(brd, p) >= 1
        /\ Cardinality(Flagged(brd) \cap Around(brd, p)) = MinesAround(brd, p)}

\* the place in the sequence of the first mine, the call that loses
LosingCall(brd, cells) ==
    {i \in 1 .. Len(cells) :
        /\ cells[i] \in brd.mines
        /\ \A j \in 1 .. i - 1 : cells[j] \notin brd.mines}

C28_ChordLeavesLaterNeighbours ==
    Active(board) =>
        \A p \in ChordProceeds(board) :
            LET targets == InGridOrder(Around(board, p) \cap Covered(board))
                after   == chord_reveal(board, p[1], p[2])
            IN  /\ after = RevealOneAtATime(board, targets)
                /\ \A i \in LosingCall(board, targets) :
                       \A j \in i + 1 .. Len(targets) :
                           targets[j] \notin board.mines
                               => targets[j] \notin after.revealed

(***************************************************************************)
(* C28 amended: chord_reveal, when it proceeds, gives the board obtained   *)
(* by those calls of reveal_cell, in that order, stopping after the first  *)
(* call that sets game_over.  No call is made for the neighbours after     *)
(* that point: a safe one among them is revealed only if the flood fill of *)
(* an earlier call had reached it, and a mine among them is disclosed by   *)
(* the loss.                                                               *)
(***************************************************************************)
C28_ChordIsSequentialReveal ==
    Active(board) =>
        \A p \in ChordProceeds(board) :
            LET targets == InGridOrder(Around(board, p) \cap Covered(board))
                after   == chord_reveal(board, p[1], p[2])
            IN  /\ after = RevealOneAtATime(board, targets)
                /\ \A i \in LosingCall(board, targets) :
                       LET before == SubSeq(targets, 1, i - 1)
                           zeros  == {z \in SeqRange(before) : MinesAround(board, z) = 0}
                       IN  /\ Lost(after)
                           /\ \A j \in i + 1 .. Len(targets) :
                                  targets[j] \in after.revealed
                                      <=> \/ targets[j] \in board.mines
                                          \/ targets[j] \in FloodReach(board, zeros)

\* a chord on a wrongly flagged cell hit a mine: the flags around the
\* target are as many as its number, one of them on a safe cell; a safe
\* neighbour is still covered and another one, placed after a mine, is
\* revealed
C28_Witness ==
    /\ Lost(board)
    /\ \E p \in ChordProceeds(board) :
           /\ (Flagged(board) \cap Around(board, p)) \ board.mines # {}
           /\ (Around(board, p) \cap Covered(board)) \ board.mines # {}
           /\ \E m \in (Around(board, p) \cap board.mines) \ Flagged(board) :
                  \E q \in (Around(board, p) \cap board.revealed) \ board.mines :
                      m[1] < q[1] \/ (m[1] = q[1] /\ m[2] < q[2])

(***************************************************************************)
(* C29. On an initialized board adjacent_counts is defined for exactly the *)
(* cells that are not mines, and its value for such a cell is the number   *)
(* of mines among the in-bounds cells around it, between 0 and 8.          *)
(***************************************************************************)
C29_AdjacentCounts ==
    board.initialized =>
        /\ DOMAIN board.adjacent_counts
               = {ToString(p[1]) \o "," \o ToString(p[2]) :
                     p \in Grid(board) \ board.mines}
        /\ \A p \in Grid(board) \ board.mines :
               LET count == board.adjacent_counts[
                                ToString(p[1]) \o "," \o ToString(p[2])]
               IN  /\ count = MinesAround(board, p)
                   /\ count \in 0 .. 8

\* a board with a safe cell that touches mines only by its corners, one
\* that touches a mine by a side, and one that touches none
C29_Witness ==
    /\ board.initialized
    /\ \E p \in Grid(board) \ board.mines :
           /\ MinesAround(board, p) >= 1
           /\ \A q \in Around(board, p) \cap board.mines :
                  q[1] # p[1] /\ q[2] # p[2]
    /\ \E p \in Grid(board) \ board.mines :
           \E q \in Around(board, p) \cap board.mines :
               q[1] = p[1] \/ q[2] = p[2]
    /\ \E p \in Grid(board) \ board.mines : MinesAround(board, p) = 0

(***************************************************************************)
(* C30. Once the board is initialized every step keeps it initialized and  *)
(* leaves rows, cols, mines and adjacent_counts as they are: the mines are *)
(* placed at most once per board.                                          *)
(***************************************************************************)
C30_PlacementIsFinal ==
    [][board.initialized =>
          /\ board'.initialized
          /\ board'.rows = board.rows
          /\ board'.cols = board.cols
          /\ board'.mines = board.mines
          /\ board'.adjacent_counts = board.adjacent_counts]_vars

\* an initialized board on which reveals, a clue and the player's flags
\* have acted and the game goes on
C30_Witness ==
    /\ Active(board)
    /\ Cardinality(board.revealed) >= 2
    /\ Immune(board) # {}
    /\ PlayerFlags(board) >= 1
    /\ Cardinality(board.mines) >= 2

(***************************************************************************)
(* C31. The revealed set never shrinks: in every step the revealed set     *)
(* before it is a subset of the revealed set after it.                     *)
(***************************************************************************)
C31_RevealedGrows ==
    [][board.revealed \subseteq board'.revealed]_vars

\* a lost board that had safe cells revealed before the mines were disclosed
C31_Witness ==
    /\ Lost(board)
    /\ Cardinality(board.revealed \ board.mines) >= 2
    /\ board.mines # {}
    /\ board.mines \subseteq board.revealed

(***************************************************************************)
(* C32. A board only moves forward, from uninitialized to initialized and  *)
(* from there to game over: no step makes initialized or game_over false   *)
(* again, game_over implies initialized, and while the board is            *)
(* uninitialized mines, adjacent_counts and revealed are empty; toggle_flag *)
(* changes neither initialized nor game_over.                              *)
(***************************************************************************)
C32_ForwardOnly ==
    /\ [](/\ board.game_over => board.initialized
          /\ ~board.initialized =>
                /\ board.mines = {}
                /\ DOMAIN board.adjacent_counts = {}
                /\ board.revealed = {}
          /\ \A a \in CoordArgs(board) :
                LET after == toggle_flag(board, a[1], a[2])
                IN  /\ after.initialized = board.initialized
                    /\ after.game_over = board.game_over)
    /\ [][/\ board.initialized => board'.initialized
          /\ board.game_over => board'.game_over
          /\ board.won => board'.won]_vars

\* a board that went all the way: flags of the player and of a clue were
\* placed while it was active, and the game is lost
C32_Witness ==
    /\ board.initialized
    /\ Lost(board)
    /\ Immune(board) # {}
    /\ PlayerFlags(board) >= 1

(***************************************************************************)
(* C33. The flood fill terminates: on every grid its stack becomes empty   *)
(* after finitely many iterations and each cell is added to new_revealed   *)
(* at most once; the set it then holds is the one reveal_cell stores, so   *)
(* every reveal_cell and chord_reveal call, which runs it at most once per *)
(* neighbour, completes.                                                   *)
(***************************************************************************)
C33_FloodFillTerminates ==
    /\ <>(fill.stack = <<>>)
    /\ [](/\ \A p \in BagToSet(fill.added) : CopiesIn(p, fill.added) = 1
          /\ Len(fill.stack) <= 1 + 8 * fill.brd.rows * fill.brd.cols
          /\ fill.stack = <<>> =>
                fill.new_revealed =
                    _flood_fill_reveal(fill.start[1], fill.start[2],
                                       fill.brd.rows, fill.brd.cols, fill.revealed,
                                       fill.flagged, fill.brd.mines, fill.brd))

\* a finished run that added four cells or more, on a board with a mine and
\* a flag, and left some safe cell covered
C33_Witness ==
    /\ fill.stack = <<>>
    /\ Cardinality(fill.new_revealed) >= 4
    /\ fill.flagged # {}
    /\ fill.brd.mines # {}
    /\ fill.new_revealed # (Grid(fill.brd) \ fill.brd.mines)

(***************************************************************************)
(* C34 as stated: after the action that wins the level the session is      *)
(* active, and after the action that loses it the session is inactive,     *)
(* in a registered session and in a guest session: session and board      *)
(* after a step of GameActionView are the session it acted on.             *)
(***************************************************************************)
C34_ActiveAfterWinOnly ==
    [][(PostReveal \/ PostFlag \/ PostChord \/ PostClue) /\ board'.game_over
          => session'.is_active = board'.won]_vars

(***************************************************************************)
(* C35 as stated: for every level >= 1, in a registered session and in a   *)
(* guest session, the mine count of the level is at most rows*cols - 9 for *)
(* the grid of the level, so that initialize_board accepts it for a first  *)
(* click in a corner as well as for one away from the borders.             *)
(***************************************************************************)
C35_MineCountFitsGrid ==
    level_call.result # None =>
        LET policy == level_call.result[1]
        IN  /\ policy.mine_count <= policy.rows * policy.cols - 9
            /\ \A first \in {<<0, 0>>, <<1, 1>>} :
                   ~initialize_board_raises(policy.rows, policy.cols,
                                            policy.mine_count, first)

(***************************************************************************)
(* C36. In every state that is not lost, no cell is both flagged and       *)
(* revealed.                                                               *)
(***************************************************************************)
C36_FlaggedCoveredUnlessLost ==
    ~Lost(board) => Flagged(board) \cap board.revealed = {}

\* a won board that carries a flag
C36_Witness ==
    /\ board.won
    /\ Flagged(board) # {}
    /\ board.revealed # {}

(***************************************************************************)
(* C37. Every immune flag is on a mine, in every state; and in a won       *)
(* state every flag is on a mine.                                          *)
(***************************************************************************)
C37_FlagsOnMines ==
    /\ Immune(board) \subseteq board.mines
    /\ board.won => Flagged(board) \subseteq board.mines

\* a won board with an immune flag and a flag of the player
C37_Witness ==
    /\ board.won
    /\ Immune(board) # {}
    /\ Flagged(board) \ Immune(board) # {}

(***************************************************************************)
(* C38. On an uninitialized board, a first reveal or clue on a cell of the *)
(* grid with an accepted mine count gives, for every random choice, an     *)
(* initialized board on which the clicked cell has adjacent count 0 and no *)
(* mine around it, the clicked cell and all its neighbours are revealed,   *)
(* and the game is not lost.                                               *)
(***************************************************************************)
C38_FirstClickOpens ==
    [](~board.initialized /\ raised = "none" =>
          \A a \in Grid(board), mine_count \in MineCountArgs :
              ~reveal_cell_raises(board, a[1], a[2], mine_count) =>
                  \A sample \in reveal_cell_samples(board, a[1], a[2], mine_count) :
                      \A after \in {reveal_cell(board, a[1], a[2], mine_count, sample),
                                    apply_clue(board, a[1], a[2], mine_count, sample)} :
                          /\ after.initialized
                          /\ CoordKey(a[1], a[2]) \in DOMAIN after.adjacent_counts
                          /\ after.adjacent_counts[CoordKey(a[1], a[2])] = 0
                          /\ MinesAround(after, a) = 0
                          /\ SafeZone(board, a) \subseteq after.revealed
                          /\ ~Lost(after))

\* a first click done: the board is initialized with mines, still active,
\* and some cell and all its neighbours are revealed with no mine around
C38_Witness ==
    /\ Active(board)
    /\ board.mines # {}
    /\ \E p \in Grid(board) :
           /\ SafeZone(board, p) \subseteq board.revealed
           /\ MinesAround(board, p) = 0
           /\ Cardinality(SafeZone(board, p)) >= 4

(***************************************************************************)
(* C39. toggle_flag is accepted on an uninitialized board: on a cell of    *)
(* the grid it places the flag, or removes the one that is there.  The     *)
(* step that initializes the board discards every such flag: right after   *)
(* it, flagged and immune_flags are empty.                                 *)
(***************************************************************************)
C39_EarlyFlagsDiscarded ==
    /\ [](~board.initialized =>
             \A a \in Grid(board) :
                 LET after == toggle_flag(board, a[1], a[2])
                 IN  /\ ~after.initialized
                     /\ Flagged(after) = IF a \in Flagged(board)
                                            THEN Flagged(board) \ {a}
                                            ELSE Flagged(board) \cup {a})
    /\ [][~board.initialized /\ board'.initialized =>
             board'.flagged = EmptyBag /\ board'.immune_flags = EmptyBag]_vars

\* as many flags as a player places, on a board that is not initialized yet
\* and on which a first reveal is still to come
C39_Witness ==
    /\ ~board.initialized
    /\ raised = "none"
    /\ PlayerFlags(board) = MaxFlags
    /\ Cardinality(Grid(board)) > MaxFlags

(***************************************************************************)
(* C40. Revealing an unflagged, unrevealed mine of an active initialized   *)
(* board adds exactly the mines to revealed: the safe revealed cells are   *)
(* the same, flagged and immune_flags are the same, and revealed has as    *)
(* many cells as before plus the number of mines.                          *)
(***************************************************************************)
C40_LosingRevealAddsMines ==
    Active(board) =>
        \A m \in board.mines \cap Covered(board) :
            LET after == RevealAt(board, m)
            IN  /\ after.revealed = board.revealed \cup board.mines
                /\ after.revealed \ board.mines = board.revealed \ board.mines
                /\ after.flagged = board.flagged
                /\ after.immune_flags = board.immune_flags
                /\ Cardinality(after.revealed)
                       = Cardinality(board.revealed) + Cardinality(board.mines)

\* a lost board with revealed safe cells, all mines disclosed, an immune
\* flag and a flag of the player still in place
C40_Witness ==
    /\ Lost(board)
    /\ board.revealed \ board.mines # {}
    /\ Cardinality(board.revealed)
           = Cardinality(board.revealed \ board.mines) + Cardinality(board.mines)
    /\ Immune(board) # {}
    /\ Flagged(board) \ Immune(board) # {}

====
